---- MODULE Spec2Model ----
(***************************************************************************)
(* A model of the e-commerce product crawler (src/ecommerce_crawler.py):   *)
(* the product classifier (_is_product_url), the link extractor            *)
(* (_extract_links), the rate-limited page fetch (_fetch_page) with the    *)
(* enrichment step (_process_product_page), and the per-domain crawl loop  *)
(* (_crawl_domain) run by crawl().                                         *)
(*                                                                         *)
(* Time is counted in ticks of half a second.  Strings the code inspects   *)
(* character by character are looked up in Chars, which spells each string *)
(* of the model as its sequence of characters.                             *)
(***************************************************************************)
EXTENDS Integers, Sequences, FiniteSets, TLC

\* ------------------------------------------------------------------------
\* Strings and regular expressions

\* ------------------------------------------------------------------------
\* The spelling of every string the model uses.
Chars ==
  "" :> <<>> @@
  "#" :> <<"#">> @@
  "(sale" :> <<"(", "s", "a", "l", "e">> @@
  "-" :> <<"-">> @@
  "-p-" :> <<"-", "p", "-">> @@
  "-pd-" :> <<"-", "p", "d", "-">> @@
  "/" :> <<"/">> @@
  "/accessories/" :> <<"/", "a", "c", "c", "e", "s", "s", "o", "r", "i", "e", "s", "/">> @@
  "/apparel/" :> <<"/", "a", "p", "p", "a", "r", "e", "l", "/">> @@
  "/article/" :> <<"/", "a", "r", "t", "i", "c", "l", "e", "/">> @@
  "/beauty/" :> <<"/", "b", "e", "a", "u", "t", "y", "/">> @@
  "/buy/" :> <<"/", "b", "u", "y", "/">> @@
  "/c/" :> <<"/", "c", "/">> @@
  "/catalog/" :> <<"/", "c", "a", "t", "a", "l", "o", "g", "/">> @@
  "/categories/" :> <<"/", "c", "a", "t", "e", "g", "o", "r", "i", "e", "s", "/">> @@
  "/category/" :> <<"/", "c", "a", "t", "e", "g", "o", "r", "y", "/">> @@
  "/clothing/" :> <<"/", "c", "l", "o", "t", "h", "i", "n", "g", "/">> @@
  "/collection/" :> <<"/", "c", "o", "l", "l", "e", "c", "t", "i", "o", "n", "/">> @@
  "/collections/" :> <<"/", "c", "o", "l", "l", "e", "c", "t", "i", "o", "n", "s", "/">> @@
  "/detail/" :> <<"/", "d", "e", "t", "a", "i", "l", "/">> @@
  "/dp/" :> <<"/", "d", "p", "/">> @@
  "/electronics/" :> <<"/", "e", "l", "e", "c", "t", "r", "o", "n", "i", "c", "s", "/">> @@
  "/ethnic/" :> <<"/", "e", "t", "h", "n", "i", "c", "/">> @@
  "/fashion/" :> <<"/", "f", "a", "s", "h", "i", "o", "n", "/">> @@
  "/footwear/" :> <<"/", "f", "o", "o", "t", "w", "e", "a", "r", "/">> @@
  "/furniture/" :> <<"/", "f", "u", "r", "n", "i", "t", "u", "r", "e", "/">> @@
  "/good" :> <<"/", "g", "o", "o", "d">> @@
  "/home/" :> <<"/", "h", "o", "m", "e", "/">> @@
  "/id" :> <<"/", "i", "d">> @@
  "/item" :> <<"/", "i", "t", "e", "m">> @@
  "/jewellery/" :> <<"/", "j", "e", "w", "e", "l", "l", "e", "r", "y", "/">> @@
  "/listing/" :> <<"/", "l", "i", "s", "t", "i", "n", "g", "/">> @@
  "/merch/" :> <<"/", "m", "e", "r", "c", "h", "/">> @@
  "/merchandise/" :> <<"/", "m", "e", "r", "c", "h", "a", "n", "d", "i", "s", "e", "/">> @@
  "/p-" :> <<"/", "p", "-">> @@
  "/p/" :> <<"/", "p", "/">> @@
  "/pd/" :> <<"/", "p", "d", "/">> @@
  "/prod/" :> <<"/", "p", "r", "o", "d", "/">> @@
  "/product" :> <<"/", "p", "r", "o", "d", "u", "c", "t">> @@
  "/productdetail/" :> <<"/", "p", "r", "o", "d", "u", "c", "t", "d", "e", "t", "a", "i", "l", "/">> @@
  "/productdisplay/" :> <<"/", "p", "r", "o", "d", "u", "c", "t", "d", "i", "s", "p", "l", "a", "y", "/">> @@
  "/productview/" :> <<"/", "p", "r", "o", "d", "u", "c", "t", "v", "i", "e", "w", "/">> @@
  "/shop/" :> <<"/", "s", "h", "o", "p", "/">> @@
  "/shop/product/" :> <<"/", "s", "h", "o", "p", "/", "p", "r", "o", "d", "u", "c", "t", "/">> @@
  "/shopping/" :> <<"/", "s", "h", "o", "p", "p", "i", "n", "g", "/">> @@
  "/sku/" :> <<"/", "s", "k", "u", "/">> @@
  "/store/product/" :> <<"/", "s", "t", "o", "r", "e", "/", "p", "r", "o", "d", "u", "c", "t", "/">> @@
  "/view/" :> <<"/", "v", "i", "e", "w", "/">> @@
  "/viewproduct/" :> <<"/", "v", "i", "e", "w", "p", "r", "o", "d", "u", "c", "t", "/">> @@
  "/wear/" :> <<"/", "w", "e", "a", "r", "/">> @@
  "123456" :> <<"1", "2", "3", "4", "5", "6">> @@
  "6826" :> <<"6", "8", "2", "6">> @@
  "://" :> <<":", "/", "/">> @@
  "?" :> <<"?">> @@
  "about-us" :> <<"a", "b", "o", "u", "t", "-", "u", "s">> @@
  "accessories" :> <<"a", "c", "c", "e", "s", "s", "o", "r", "i", "e", "s">> @@
  "add-to-bag" :> <<"a", "d", "d", "-", "t", "o", "-", "b", "a", "g">> @@
  "add-to-cart" :> <<"a", "d", "d", "-", "t", "o", "-", "c", "a", "r", "t">> @@
  "add-to-wishlist" :> <<"a", "d", "d", "-", "t", "o", "-", "w", "i", "s", "h", "l", "i", "s", "t">> @@
  "addToBag" :> <<"a", "d", "d", "T", "o", "B", "a", "g">> @@
  "addToBagButton" :> <<"a", "d", "d", "T", "o", "B", "a", "g", "B", "u", "t", "t", "o", "n">> @@
  "addToCart" :> <<"a", "d", "d", "T", "o", "C", "a", "r", "t">> @@
  "addToWishlist" :> <<"a", "d", "d", "T", "o", "W", "i", "s", "h", "l", "i", "s", "t">> @@
  "add_to_bag" :> <<"a", "d", "d", "_", "t", "o", "_", "b", "a", "g">> @@
  "add_to_cart" :> <<"a", "d", "d", "_", "t", "o", "_", "c", "a", "r", "t">> @@
  "add_to_wishlist" :> <<"a", "d", "d", "_", "t", "o", "_", "w", "i", "s", "h", "l", "i", "s", "t">> @@
  "apparel" :> <<"a", "p", "p", "a", "r", "e", "l">> @@
  "bags" :> <<"b", "a", "g", "s">> @@
  "beauty" :> <<"b", "e", "a", "u", "t", "y">> @@
  "best-sellers" :> <<"b", "e", "s", "t", "-", "s", "e", "l", "l", "e", "r", "s">> @@
  "buy-now" :> <<"b", "u", "y", "-", "n", "o", "w">> @@
  "buyNow" :> <<"b", "u", "y", "N", "o", "w">> @@
  "buyNowButton" :> <<"b", "u", "y", "N", "o", "w", "B", "u", "t", "t", "o", "n">> @@
  "buy_now" :> <<"b", "u", "y", "_", "n", "o", "w">> @@
  "c" :> <<"c">> @@
  "catalog" :> <<"c", "a", "t", "a", "l", "o", "g">> @@
  "category" :> <<"c", "a", "t", "e", "g", "o", "r", "y">> @@
  "cdn.example.net" :> <<"c", "d", "n", ".", "e", "x", "a", "m", "p", "l", "e", ".", "n", "e", "t">> @@
  "clearance-sale" :> <<"c", "l", "e", "a", "r", "a", "n", "c", "e", "-", "s", "a", "l", "e">> @@
  "clothing" :> <<"c", "l", "o", "t", "h", "i", "n", "g">> @@
  "collection" :> <<"c", "o", "l", "l", "e", "c", "t", "i", "o", "n">> @@
  "collections" :> <<"c", "o", "l", "l", "e", "c", "t", "i", "o", "n", "s">> @@
  "color-selector" :> <<"c", "o", "l", "o", "r", "-", "s", "e", "l", "e", "c", "t", "o", "r">> @@
  "colorSelector" :> <<"c", "o", "l", "o", "r", "S", "e", "l", "e", "c", "t", "o", "r">> @@
  "color_selector" :> <<"c", "o", "l", "o", "r", "_", "s", "e", "l", "e", "c", "t", "o", "r">> @@
  "current-price" :> <<"c", "u", "r", "r", "e", "n", "t", "-", "p", "r", "i", "c", "e">> @@
  "currentPrice" :> <<"c", "u", "r", "r", "e", "n", "t", "P", "r", "i", "c", "e">> @@
  "current_price" :> <<"c", "u", "r", "r", "e", "n", "t", "_", "p", "r", "i", "c", "e">> @@
  "customer-reviews" :> <<"c", "u", "s", "t", "o", "m", "e", "r", "-", "r", "e", "v", "i", "e", "w", "s">> @@
  "customerReviews" :> <<"c", "u", "s", "t", "o", "m", "e", "r", "R", "e", "v", "i", "e", "w", "s">> @@
  "customer_reviews" :> <<"c", "u", "s", "t", "o", "m", "e", "r", "_", "r", "e", "v", "i", "e", "w", "s">> @@
  "data-item-id" :> <<"d", "a", "t", "a", "-", "i", "t", "e", "m", "-", "i", "d">> @@
  "data-pid" :> <<"d", "a", "t", "a", "-", "p", "i", "d">> @@
  "data-product-id" :> <<"d", "a", "t", "a", "-", "p", "r", "o", "d", "u", "c", "t", "-", "i", "d">> @@
  "data-sku" :> <<"d", "a", "t", "a", "-", "s", "k", "u">> @@
  "deals" :> <<"d", "e", "a", "l", "s">> @@
  "deals-of-the-day" :> <<"d", "e", "a", "l", "s", "-", "o", "f", "-", "t", "h", "e", "-", "d", "a", "y">> @@
  "delivery-options" :> <<"d", "e", "l", "i", "v", "e", "r", "y", "-", "o", "p", "t", "i", "o", "n", "s">> @@
  "deliveryOptions" :> <<"d", "e", "l", "i", "v", "e", "r", "y", "O", "p", "t", "i", "o", "n", "s">> @@
  "delivery_options" :> <<"d", "e", "l", "i", "v", "e", "r", "y", "_", "o", "p", "t", "i", "o", "n", "s">> @@
  "div" :> <<"d", "i", "v">> @@
  "emi-options" :> <<"e", "m", "i", "-", "o", "p", "t", "i", "o", "n", "s">> @@
  "emiOptions" :> <<"e", "m", "i", "O", "p", "t", "i", "o", "n", "s">> @@
  "emi_options" :> <<"e", "m", "i", "_", "o", "p", "t", "i", "o", "n", "s">> @@
  "fashion" :> <<"f", "a", "s", "h", "i", "o", "n">> @@
  "festival-sale" :> <<"f", "e", "s", "t", "i", "v", "a", "l", "-", "s", "a", "l", "e">> @@
  "footwear" :> <<"f", "o", "o", "t", "w", "e", "a", "r">> @@
  "furniture" :> <<"f", "u", "r", "n", "i", "t", "u", "r", "e">> @@
  "h1" :> <<"h", "1">> @@
  "hello" :> <<"h", "e", "l", "l", "o">> @@
  "home" :> <<"h", "o", "m", "e">> @@
  "home-decor" :> <<"h", "o", "m", "e", "-", "d", "e", "c", "o", "r">> @@
  "html" :> <<"h", "t", "m", "l">> @@
  "http" :> <<"h", "t", "t", "p">> @@
  "https" :> <<"h", "t", "t", "p", "s">> @@
  "item-42" :> <<"i", "t", "e", "m", "-", "4", "2">> @@
  "item-77" :> <<"i", "t", "e", "m", "-", "7", "7">> @@
  "item-details" :> <<"i", "t", "e", "m", "-", "d", "e", "t", "a", "i", "l", "s">> @@
  "item-id" :> <<"i", "t", "e", "m", "-", "i", "d">> @@
  "itemDetails" :> <<"i", "t", "e", "m", "D", "e", "t", "a", "i", "l", "s">> @@
  "itemId" :> <<"i", "t", "e", "m", "I", "d">> @@
  "item_details" :> <<"i", "t", "e", "m", "_", "d", "e", "t", "a", "i", "l", "s">> @@
  "itemtype=\"http://schema.org/Product\"" :> <<"i", "t", "e", "m", "t", "y", "p", "e", "=", "\"", "h", "t", "t", "p", ":", "/", "/", "s", "c", "h", "e", "m", "a", ".", "o", "r", "g", "/", "P", "r", "o", "d", "u", "c", "t", "\"">> @@
  "itemtype=\"https://schema.org/Product\"" :> <<"i", "t", "e", "m", "t", "y", "p", "e", "=", "\"", "h", "t", "t", "p", "s", ":", "/", "/", "s", "c", "h", "e", "m", "a", ".", "o", "r", "g", "/", "P", "r", "o", "d", "u", "c", "t", "\"">> @@
  "javascript" :> <<"j", "a", "v", "a", "s", "c", "r", "i", "p", "t">> @@
  "jewellery" :> <<"j", "e", "w", "e", "l", "l", "e", "r", "y">> @@
  "kids" :> <<"k", "i", "d", "s">> @@
  "kitchen" :> <<"k", "i", "t", "c", "h", "e", "n">> @@
  "kurta" :> <<"k", "u", "r", "t", "a">> @@
  "mailto" :> <<"m", "a", "i", "l", "t", "o">> @@
  "men" :> <<"m", "e", "n">> @@
  "mrp" :> <<"m", "r", "p">> @@
  "new-arrivals" :> <<"n", "e", "w", "-", "a", "r", "r", "i", "v", "a", "l", "s">> @@
  "nykaafashion.com" :> <<"n", "y", "k", "a", "a", "f", "a", "s", "h", "i", "o", "n", ".", "c", "o", "m">> @@
  "p" :> <<"p">> @@
  "p-" :> <<"p", "-">> @@
  "p-mp0001" :> <<"p", "-", "m", "p", "0", "0", "0", "1">> @@
  "p/" :> <<"p", "/">> @@
  "page=2" :> <<"p", "a", "g", "e", "=", "2">> @@
  "pincode-check" :> <<"p", "i", "n", "c", "o", "d", "e", "-", "c", "h", "e", "c", "k">> @@
  "pincodeCheck" :> <<"p", "i", "n", "c", "o", "d", "e", "C", "h", "e", "c", "k">> @@
  "pincode_check" :> <<"p", "i", "n", "c", "o", "d", "e", "_", "c", "h", "e", "c", "k">> @@
  "price" :> <<"p", "r", "i", "c", "e">> @@
  "product" :> <<"p", "r", "o", "d", "u", "c", "t">> @@
  "product-card" :> <<"p", "r", "o", "d", "u", "c", "t", "-", "c", "a", "r", "d">> @@
  "product-description" :> <<"p", "r", "o", "d", "u", "c", "t", "-", "d", "e", "s", "c", "r", "i", "p", "t", "i", "o", "n">> @@
  "product-details" :> <<"p", "r", "o", "d", "u", "c", "t", "-", "d", "e", "t", "a", "i", "l", "s">> @@
  "product-id" :> <<"p", "r", "o", "d", "u", "c", "t", "-", "i", "d">> @@
  "product-name" :> <<"p", "r", "o", "d", "u", "c", "t", "-", "n", "a", "m", "e">> @@
  "product-name-123456" :> <<"p", "r", "o", "d", "u", "c", "t", "-", "n", "a", "m", "e", "-", "1", "2", "3", "4", "5", "6">> @@
  "product-price" :> <<"p", "r", "o", "d", "u", "c", "t", "-", "p", "r", "i", "c", "e">> @@
  "product-reviews" :> <<"p", "r", "o", "d", "u", "c", "t", "-", "r", "e", "v", "i", "e", "w", "s">> @@
  "product-title" :> <<"p", "r", "o", "d", "u", "c", "t", "-", "t", "i", "t", "l", "e">> @@
  "productDescription" :> <<"p", "r", "o", "d", "u", "c", "t", "D", "e", "s", "c", "r", "i", "p", "t", "i", "o", "n">> @@
  "productDetails" :> <<"p", "r", "o", "d", "u", "c", "t", "D", "e", "t", "a", "i", "l", "s">> @@
  "productId" :> <<"p", "r", "o", "d", "u", "c", "t", "I", "d">> @@
  "productPrice" :> <<"p", "r", "o", "d", "u", "c", "t", "P", "r", "i", "c", "e">> @@
  "productReviews" :> <<"p", "r", "o", "d", "u", "c", "t", "R", "e", "v", "i", "e", "w", "s">> @@
  "productTitle" :> <<"p", "r", "o", "d", "u", "c", "t", "T", "i", "t", "l", "e">> @@
  "product_description" :> <<"p", "r", "o", "d", "u", "c", "t", "_", "d", "e", "s", "c", "r", "i", "p", "t", "i", "o", "n">> @@
  "product_details" :> <<"p", "r", "o", "d", "u", "c", "t", "_", "d", "e", "t", "a", "i", "l", "s">> @@
  "product_name" :> <<"p", "r", "o", "d", "u", "c", "t", "_", "n", "a", "m", "e">> @@
  "product_price" :> <<"p", "r", "o", "d", "u", "c", "t", "_", "p", "r", "i", "c", "e">> @@
  "product_reviews" :> <<"p", "r", "o", "d", "u", "c", "t", "_", "r", "e", "v", "i", "e", "w", "s">> @@
  "product_title" :> <<"p", "r", "o", "d", "u", "c", "t", "_", "t", "i", "t", "l", "e">> @@
  "products" :> <<"p", "r", "o", "d", "u", "c", "t", "s">> @@
  "radio" :> <<"r", "a", "d", "i", "o">> @@
  "sale-price" :> <<"s", "a", "l", "e", "-", "p", "r", "i", "c", "e">> @@
  "salePrice" :> <<"s", "a", "l", "e", "P", "r", "i", "c", "e">> @@
  "sale_price" :> <<"s", "a", "l", "e", "_", "p", "r", "i", "c", "e">> @@
  "shirt" :> <<"s", "h", "i", "r", "t">> @@
  "shoes" :> <<"s", "h", "o", "e", "s">> @@
  "shop" :> <<"s", "h", "o", "p">> @@
  "shop.example.com" :> <<"s", "h", "o", "p", ".", "e", "x", "a", "m", "p", "l", "e", ".", "c", "o", "m">> @@
  "size-selector" :> <<"s", "i", "z", "e", "-", "s", "e", "l", "e", "c", "t", "o", "r">> @@
  "sizeSelector" :> <<"s", "i", "z", "e", "S", "e", "l", "e", "c", "t", "o", "r">> @@
  "size_selector" :> <<"s", "i", "z", "e", "_", "s", "e", "l", "e", "c", "t", "o", "r">> @@
  "sku-id" :> <<"s", "k", "u", "-", "i", "d">> @@
  "skuId" :> <<"s", "k", "u", "I", "d">> @@
  "span" :> <<"s", "p", "a", "n">> @@
  "sports" :> <<"s", "p", "o", "r", "t", "s">> @@
  "store" :> <<"s", "t", "o", "r", "e">> @@
  "summer" :> <<"s", "u", "m", "m", "e", "r">> @@
  "summer-sale" :> <<"s", "u", "m", "m", "e", "r", "-", "s", "a", "l", "e">> @@
  "sunglasses" :> <<"s", "u", "n", "g", "l", "a", "s", "s", "e", "s">> @@
  "tatacliq.com" :> <<"t", "a", "t", "a", "c", "l", "i", "q", ".", "c", "o", "m">> @@
  "tel" :> <<"t", "e", "l">> @@
  "title" :> <<"t", "i", "t", "l", "e">> @@
  "top" :> <<"t", "o", "p">> @@
  "trending" :> <<"t", "r", "e", "n", "d", "i", "n", "g">> @@
  "tv" :> <<"t", "v">> @@
  "variant-id" :> <<"v", "a", "r", "i", "a", "n", "t", "-", "i", "d">> @@
  "variantId" :> <<"v", "a", "r", "i", "a", "n", "t", "I", "d">> @@
  "void(0)" :> <<"v", "o", "i", "d", "(", "0", ")">> @@
  "watches" :> <<"w", "a", "t", "c", "h", "e", "s">> @@
  "winter" :> <<"w", "i", "n", "t", "e", "r">> @@
  "winter-sale" :> <<"w", "i", "n", "t", "e", "r", "-", "s", "a", "l", "e">> @@
  "women" :> <<"w", "o", "m", "e", "n">> @@
  "www.tatacliq.com" :> <<"w", "w", "w", ".", "t", "a", "t", "a", "c", "l", "i", "q", ".", "c", "o", "m">> @@
  "x1" :> <<"x", "1">> @@
  "x2" :> <<"x", "2">> @@
  "x3" :> <<"x", "3">> @@
  "x4" :> <<"x", "4">> @@
  "x5" :> <<"x", "5">> @@
  "x6" :> <<"x", "6">>

Digit == {"0", "1", "2", "3", "4", "5", "6", "7", "8", "9"}

Lower == {"a", "b", "c", "d", "e", "f", "g", "h", "i", "j", "k", "l", "m",
          "n", "o", "p", "q", "r", "s", "t", "u", "v", "w", "x", "y", "z"}

\* A character class: the characters of set, or all the others when neg.
Only(c) == [neg |-> FALSE, set |-> {c}]
DigitClass == [neg |-> FALSE, set |-> Digit]
LowerAlnum == [neg |-> FALSE, set |-> Lower \cup Digit]
NotSlash == [neg |-> TRUE, set |-> {"/"}]
AnyChar == [neg |-> TRUE, set |-> {}]

InClass(c, cls) == (c \in cls.set) # cls.neg

\* A quantified atom: between lo and hi repetitions of a class (hi = -1: no limit).
One(cls) == [cls |-> cls, lo |-> 1, hi |-> 1]
Opt(cls) == [cls |-> cls, lo |-> 0, hi |-> 1]
Plus(cls) == [cls |-> cls, lo |-> 1, hi |-> -1]
Star(cls) == [cls |-> cls, lo |-> 0, hi |-> -1]
AtLeast(cls, n) == [cls |-> cls, lo |-> n, hi |-> -1]

\* The atoms of a literal string.
LitAtom(c) == One(Only(c))
Lit(s) == [i \in 1..Len(Chars[s]) |-> LitAtom(Chars[s][i])]

\* The atoms of a string that re.search takes as a pattern: a "." is the
\* wildcard, and a "(" with the ")" that closes it makes a group, which
\* matches what the characters between them match.
PatAtom(c) == IF c = "." THEN One(AnyChar) ELSE One(Only(c))
Ungrouped(cs) == SelectSeq(cs, LAMBDA c : c \notin {"(", ")"})
PatternAtoms(cs) == [i \in 1..Len(Ungrouped(cs)) |-> PatAtom(Ungrouped(cs)[i])]

\* A regex: atoms in sequence, bol for a leading ^, eol for a trailing $.
Regex(atoms, eol) == [atoms |-> atoms, bol |-> FALSE, eol |-> eol]
Anchored(atoms) == [atoms |-> atoms, bol |-> TRUE, eol |-> TRUE]

\* How many characters of s from position i on lie in the class, up to most.
RECURSIVE RunLength(_, _, _, _)
RunLength(s, i, cls, most) ==
  IF most = 0 \/ i > Len(s) \/ ~InClass(s[i], cls) THEN 0
  ELSE 1 + RunLength(s, i + 1, cls, most - 1)

\* Whether the atoms from k on match s from position i on (to the end of s
\* when eol).
RECURSIVE MatchAt(_, _, _, _, _)
MatchAt(atoms, eol, k, s, i) ==
  IF k > Len(atoms)
  THEN (~eol) \/ i = Len(s) + 1
  ELSE LET a == atoms[k]
           run == RunLength(s, i, a.cls, IF a.hi = -1 THEN Len(s) ELSE a.hi)
       IN \E n \in a.lo..run : MatchAt(atoms, eol, k + 1, s, i + n)

\* re.search(regex, s) is not None
Search(rx, s) ==
  \E i \in 1..(IF rx.bol THEN 1 ELSE Len(s) + 1) : MatchAt(rx.atoms, rx.eol, 1, s, i)

PRODUCT_URL_PATTERNS ==
  << Regex(Lit("/product") \o <<Opt(Only("s"))>> \o Lit("/"), FALSE),  \* line 37: /product[s]?/
     Regex(Lit("/item") \o <<Opt(Only("s"))>> \o Lit("/"), FALSE),  \* line 38: /item[s]?/
     Regex(Lit("/p/"), FALSE),  \* line 39: /p/
     Regex(Lit("/pd/"), FALSE),  \* line 40: /pd/
     Regex(Lit("/buy/"), FALSE),  \* line 41: /buy/
     Regex(Lit("/shop/"), FALSE),  \* line 42: /shop/
     Regex(Lit("/good") \o <<Opt(Only("s"))>> \o Lit("/"), FALSE),  \* line 43: /good[s]?/
     Regex(Lit("/detail/"), FALSE),  \* line 44: /detail/
     Regex(Lit("/prod/"), FALSE),  \* line 45: /prod/
     Regex(Lit("/") \o <<Plus(NotSlash)>> \o Lit("/p/") \o <<Plus(DigitClass)>>, FALSE),  \* line 48: /[^/]+/p/\d+
     Regex(Lit("/") \o <<Plus(NotSlash)>> \o Lit("/") \o <<Plus(DigitClass)>>, TRUE),  \* line 49: /[^/]+/\d+$
     Regex(Lit("/") \o <<Plus(NotSlash)>> \o Lit("-") \o <<Plus(DigitClass)>>, TRUE),  \* line 50: /[^/]+-\d+$
     Regex(Lit("/") \o <<Plus(NotSlash)>> \o Lit("/") \o <<Plus(DigitClass)>> \o <<One(Only("."))>> \o Lit("html"), TRUE),  \* line 51: /[^/]+/\d+\.html$
     Regex(Lit("/") \o <<Plus(NotSlash)>> \o Lit("-") \o <<Plus(DigitClass)>> \o <<One(Only("."))>> \o Lit("html"), TRUE),  \* line 52: /[^/]+-\d+\.html$
     Regex(Lit("/") \o <<Plus(NotSlash)>> \o Lit("/") \o <<Plus(NotSlash)>> \o Lit("/p/") \o <<Plus(DigitClass)>>, TRUE),  \* line 55: /[^/]+/[^/]+/p/\d+$
     Regex(Lit("/") \o <<Plus(NotSlash)>> \o Lit("/") \o <<Plus(NotSlash)>> \o Lit("/") \o <<Plus(NotSlash)>> \o Lit("/p/") \o <<Plus(DigitClass)>>, TRUE),  \* line 56: /[^/]+/[^/]+/[^/]+/p/\d+$
     Regex(Lit("/") \o <<Plus(NotSlash)>> \o Lit("-") \o <<Plus(NotSlash)>> \o Lit("-") \o <<Plus(NotSlash)>> \o Lit("/p/") \o <<Plus(DigitClass)>>, TRUE),  \* line 57: /[^/]+-[^/]+-[^/]+/p/\d+$
     Regex(Lit("/") \o <<Plus(NotSlash)>> \o Lit("/p-") \o <<Plus(LowerAlnum)>>, TRUE),  \* line 60: /[^/]+/p-[a-z0-9]+$
     Regex(Lit("/") \o <<Plus(NotSlash)>> \o Lit("/p-") \o <<Plus(LowerAlnum)>> \o Lit("/"), FALSE),  \* line 61: /[^/]+/p-[a-z0-9]+/
     Regex(Lit("/catalog/"), FALSE),  \* line 64: /catalog/
     Regex(Lit("/collection/"), FALSE),  \* line 65: /collection/
     Regex(Lit("/collections/"), FALSE),  \* line 66: /collections/
     Regex(Lit("/category/"), FALSE),  \* line 67: /category/
     Regex(Lit("/categories/"), FALSE),  \* line 68: /categories/
     Regex(Lit("/c/"), FALSE),  \* line 69: /c/
     Regex(Lit("/dp/"), FALSE),  \* line 70: /dp/
     Regex(Lit("/sku/"), FALSE),  \* line 71: /sku/
     Regex(Lit("/merchandise/"), FALSE),  \* line 72: /merchandise/
     Regex(Lit("/merch/"), FALSE),  \* line 73: /merch/
     Regex(Lit("/article/"), FALSE),  \* line 74: /article/
     Regex(Lit("/view/"), FALSE),  \* line 75: /view/
     Regex(Lit("/viewproduct/"), FALSE),  \* line 76: /viewproduct/
     Regex(Lit("/productdetail/"), FALSE),  \* line 77: /productdetail/
     Regex(Lit("/productdisplay/"), FALSE),  \* line 78: /productdisplay/
     Regex(Lit("/productview/"), FALSE),  \* line 79: /productview/
     Regex(Lit("/store/product/"), FALSE),  \* line 80: /store/product/
     Regex(Lit("/shop/product/"), FALSE),  \* line 81: /shop/product/
     Regex(Lit("/shopping/"), FALSE),  \* line 82: /shopping/
     Regex(Lit("/listing/"), FALSE),  \* line 83: /listing/
     Regex(Lit("/fashion/"), FALSE),  \* line 86: /fashion/
     Regex(Lit("/clothing/"), FALSE),  \* line 87: /clothing/
     Regex(Lit("/apparel/"), FALSE),  \* line 88: /apparel/
     Regex(Lit("/wear/"), FALSE),  \* line 89: /wear/
     Regex(Lit("/ethnic/"), FALSE),  \* line 90: /ethnic/
     Regex(Lit("/accessories/"), FALSE),  \* line 91: /accessories/
     Regex(Lit("/jewellery/"), FALSE),  \* line 92: /jewellery/
     Regex(Lit("/footwear/"), FALSE),  \* line 93: /footwear/
     Regex(Lit("/beauty/"), FALSE),  \* line 94: /beauty/
     Regex(Lit("/home/"), FALSE),  \* line 95: /home/
     Regex(Lit("/furniture/"), FALSE),  \* line 96: /furniture/
     Regex(Lit("/electronics/"), FALSE),  \* line 97: /electronics/
     Regex(Lit("/id") \o <<Plus(DigitClass)>>, FALSE),  \* line 100: /id\d+
     Regex(Lit("/") \o <<Plus(DigitClass)>> \o <<One(Only("."))>> \o Lit("html"), FALSE),  \* line 101: /\d+\.html
     Regex(Lit("/") \o <<AtLeast(LowerAlnum, 8)>>, FALSE),  \* line 102: /[a-z0-9]{8,}
     Regex(<<Star(AnyChar)>> \o Lit("-p-") \o <<Plus(DigitClass)>> \o <<One(Only("."))>> \o Lit("html"), FALSE),  \* line 105: .*-p-\d+\.html
     Regex(<<Star(AnyChar)>> \o Lit("-pd-") \o <<Plus(DigitClass)>> \o <<One(Only("."))>> \o Lit("html"), FALSE),  \* line 106: .*-pd-\d+\.html
     Regex(Lit("/") \o <<Plus(NotSlash)>> \o Lit("/p/") \o <<Plus(DigitClass)>>, TRUE),  \* line 108: /[^/]+/p/\d+$
     Regex(Lit("/c/") \o <<Plus(DigitClass)>>, TRUE) >>  \* line 109: /c/\d+$

\* ------------------------------------------------------------------------
\* URLs

\* ------------------------------------------------------------------------
\* A URL (or an href): scheme "" marks an href without scheme and host, which
\* starts with "/" (path, trail), "?" or "#".  path holds the path's segments,
\* trail says that the path ends with "/".
MkUrl(scheme, host, path, trail, query, frag) ==
  [scheme |-> scheme, host |-> host, path |-> path, trail |-> trail,
   query |-> query, frag |-> frag]

\* The URL origin/p1/p2...
At(origin, path) == MkUrl(origin.scheme, origin.host, path, FALSE, "", "")

\* An href that starts with "/".
Rel(path) == MkUrl("", "", path, FALSE, "", "")

RECURSIVE JoinSegs(_)
JoinSegs(path) ==
  IF path = <<>> THEN <<>> ELSE <<"/">> \o Chars[Head(path)] \o JoinSegs(Tail(path))

\* urlparse(url).path, spelled out
PathChars(u) == JoinSegs(u.path) \o (IF u.trail THEN <<"/">> ELSE <<>>)

\* The whole URL string, spelled out.
UrlChars(u) ==
  (IF u.scheme = "" THEN <<>> ELSE Chars[u.scheme] \o Chars["://"] \o Chars[u.host])
  \o PathChars(u)
  \o (IF u.query = "" THEN <<>> ELSE <<"?">> \o Chars[u.query])
  \o (IF u.frag = "" THEN <<>> ELSE <<"#">> \o Chars[u.frag])

\* f"{parsed.scheme}://{parsed.netloc}"
_extract_domain(u) == MkUrl(u.scheme, u.host, <<>>, FALSE, "", "")

\* A same-domain test that lets every URL through.
AnyDomain(u, domain) == TRUE

\* self._extract_domain(url) == domain
_is_same_domain(u, domain) == _extract_domain(u) = domain

\* urlparse(domain).netloc
Netloc(domain) == domain.host

\* 'text' in url
UrlContains(u, text) == Search(Regex(Lit(text), FALSE), UrlChars(u))

\* urlparse(url).path.strip('/').split('/')
StripSplit(u) == IF u.path = <<>> THEN <<"">> ELSE u.path

\* The length of urlparse(url).path.split('/')
SplitLen(u) == 1 + Len(u.path) + (IF u.trail THEN 1 ELSE 0)

\* str.isdigit()
IsDigit(s) == Chars[s] # <<>> /\ \A i \in 1..Len(Chars[s]) : Chars[s][i] \in Digit

\* A fetched page: text holds the pieces of its markup that carry tokens,
\* elems its elements as (tag, class), base the href of its <base href> (a set:
\* empty without one), hrefs the href of every <a>, cards its elements that
\* are no <a> and carry a link of their own (an href, data-url or data-href
\* attribute) as (tag, class, link).
CardPage(text, elems, base, hrefs, cards) ==
  [none |-> FALSE, text |-> text, elems |-> elems, base |-> base, hrefs |-> hrefs,
   cards |-> cards]

\* A page none of whose elements but the <a> carries a link.
Page(text, elems, base, hrefs) == CardPage(text, elems, base, hrefs, {})

\* html_content = None
NoContent == [none |-> TRUE]

Min(a, b) == IF a < b THEN a ELSE b

Range(seq) == {seq[i] : i \in 1..Len(seq)}

\* ------------------------------------------------------------------------
\* The link extractor

\* ------------------------------------------------------------------------
\* href.startswith(('javascript:', '#', 'tel:', 'mailto:')), or an empty href
SkippedHref(h) ==
  \/ h.scheme \in {"javascript", "tel", "mailto"}
  \/ h.scheme = "" /\ h.path = <<>> /\ ~h.trail /\ h.query = ""

\* A join that puts the path of every href below the path of the base.
JoinBelowBase(base, h) ==
  MkUrl(base.scheme, base.host, base.path \o h.path, h.trail, h.query, h.frag)

\* urljoin(base, href) for an href that is a whole URL, starts with "/" or
\* is a query alone.
urljoin(base, h) ==
  IF h.scheme # "" THEN h
  ELSE IF h.path # <<>> \/ h.trail
       THEN MkUrl(base.scheme, base.host, h.path, h.trail, h.query, h.frag)
       ELSE MkUrl(base.scheme, base.host, base.path, base.trail, h.query, h.frag)

\* clean_url: scheme, host and path, and the query when there is one
CleanUrl(u) == MkUrl(u.scheme, u.host, u.path, u.trail, u.query, "")

\* base_href: the <base href> of the page, else the page's own URL
BaseHref(u, content) ==
  IF content.base = {} THEN u ELSE CHOOSE b \in content.base : TRUE

\* soup.select('.product-card, .product-item, .product-box,
\* .product-grid-item, [class*="product"]'): each of the selectors asks for
\* "product" in the class of the element.
ProductElements(content) ==
  {c \in content.cards : Search(Regex(Lit("product"), FALSE), Chars[c.class])}

\* The hrefs of the two loops: of every <a>, and of every product element,
\* which is its own href, data-url or data-href, else that of an <a> in it.
LinkHrefs(content) == content.hrefs \cup {c.link : c \in ProductElements(content)}

\* set(links) of _extract_links(url, html_content)
_extract_links(u, content) ==
  {CleanUrl(urljoin(BaseHref(u, content), h)) :
     h \in {g \in LinkHrefs(content) :
              /\ ~SkippedHref(g)
              /\ _is_same_domain(urljoin(BaseHref(u, content), g), _extract_domain(u))}}

\* ------------------------------------------------------------------------
\* Site configuration and enrichment

\* ------------------------------------------------------------------------
\* One tick of the clock is half a second.
\* request_delay: float = 0.5, in ticks
DefaultRequestDelay == 1

\* 'request_delay': 2.0 of the site configurations, in ticks
SiteRequestDelay == 4

\* random.uniform(0, 0.5): the longest jitter, in ticks
JitterMax == 1

\* await asyncio.sleep(10) after a 429, in ticks
RateLimitBackoff == 20

\* random.uniform(0.5, 1.0) between batches, in ticks
PauseMin == 1
PauseMax == 2

\* len(content) < 100
MinContentLength == 100

\* The hosts self.site_configs has an entry for.
ConfiguredHosts == {"nykaafashion.com", "tatacliq.com"}

\* site_config.get('request_delay', self.request_delay)
RequestDelay(domain) ==
  IF Netloc(domain) \in ConfiguredHosts THEN SiteRequestDelay ELSE DefaultRequestDelay

\* The keys of site_config.get('api_endpoints', {})
ApiEndpoints(domain) ==
  IF Netloc(domain) = "nykaafashion.com" THEN {"product", "category", "search"} ELSE {}

\* site_config.get('initial_paths', [])
InitialPaths(domain) ==
  IF Netloc(domain) = "nykaafashion.com"
  THEN <<"women", "men", "kids", "home", "beauty", "accessories", "footwear",
         "jewellery", "bags", "watches", "sunglasses", "sports", "home-decor",
         "kitchen", "furniture">>
  ELSE <<>>

\* common_patterns of _crawl_domain
NykaaCommonPatterns ==
  <<"new-arrivals", "trending", "best-sellers", "deals-of-the-day",
    "clearance-sale", "summer-sale", "winter-sale", "festival-sale">>

\* common_paths of _crawl_domain
CommonPaths ==
  <<"products", "shop", "catalog", "collection", "category", "fashion",
    "clothing", "apparel", "accessories", "footwear", "beauty">>

\* 'nykaafashion.com' in domain
IsNykaa(u) == UrlContains(u, "nykaafashion.com")

\* 'tatacliq.com' in domain
IsTataCliq(u) == UrlContains(u, "tatacliq.com")

\* path.strip('/'), spelled out
StrippedPathChars(u) == IF u.path = <<>> THEN <<>> ELSE Tail(JoinSegs(u.path))

\* _extract_product_id_from_url(url) is not None
HasProductId(u) ==
  LET path == StrippedPathChars(u)
  IN IF IsNykaa(u)
     THEN \/ Search(Regex(Lit("/p/") \o <<Plus(DigitClass)>>, TRUE), path)
          \/ Search(Regex(Lit("p/") \o <<Plus(DigitClass)>>, TRUE), path)
          \/ Search(Regex(Lit("/c/") \o <<Plus(DigitClass)>>, TRUE), path)
     ELSE IF IsTataCliq(u)
     THEN Search(Regex(Lit("/p-") \o <<Plus(LowerAlnum)>>, TRUE), path)
     ELSE FALSE

\* The seed paths of the domain, in order.
SeedPaths(domain) ==
  IF IsNykaa(domain) THEN InitialPaths(domain) \o NykaaCommonPatterns ELSE CommonPaths

\* queue as _crawl_domain first fills it: the domain and urljoin(domain, path)
\* for the seed paths.
SeedQueue(domain) ==
  <<domain>> \o [i \in 1..Len(SeedPaths(domain)) |->
                   urljoin(domain, Rel(<<SeedPaths(domain)[i]>>))]

\* ------------------------------------------------------------------------
\* The sites crawled and what their servers may answer

\* ------------------------------------------------------------------------
\* The largest small max_pages_per_domain and the largest
\* max_concurrent_requests tried.
MaxPages == 5
MaxConcurrent == 2
\* The budgets tried that outlast the seed URLs do so by so many pages at most.
MaxBeyondSeeds == 3
\* How many of the seed paths the modelled sites have pages under.
MaxLivePaths == 1
\* The same for a domains list of more than one entry.
MaxPagesMany == 1
MaxConcurrentMany == 1

Shop == MkUrl("https", "shop.example.com", <<>>, FALSE, "", "")
Nykaa == MkUrl("https", "nykaafashion.com", <<>>, FALSE, "", "")
TataCliq == MkUrl("https", "www.tatacliq.com", <<>>, FALSE, "", "")
\* A domain given with a path: _normalize_domain keeps the path.
Store == MkUrl("https", "shop.example.com", <<"store">>, FALSE, "", "")
Cdn == MkUrl("https", "cdn.example.net", <<>>, FALSE, "", "")

\* The domains lists given to the constructor, normalized: one domain, a
\* domain with a path, two strings that normalize to the same domain, and
\* two domains.
DomainLists ==
  {<<Shop>>, <<Nykaa>>, <<TataCliq>>, <<Store>>, <<TataCliq, TataCliq>>, <<Store, TataCliq>>}

\* The pages a server of the domain may answer a GET with.
WebPages(domain) ==
  IF domain = Shop
  THEN {Page({"hello"}, {}, {}, {}),
        Page({"hello"}, {}, {}, {Rel(<<"collections", "summer", "item-42">>), Rel(<<"products">>),
                                 MkUrl("https", "cdn.example.net", <<"top">>, FALSE, "", "")}),
        Page({"data-product-id"}, {}, {}, {Rel(<<"deals", "tv">>), Rel(<<"deals", "radio">>)}),
        CardPage({"hello"}, {}, {}, {Rel(<<"about-us">>)},
                 {[tag |-> "div", class |-> "product-card", link |-> Rel(<<"top">>)]})}
  ELSE IF domain = Nykaa
  THEN {Page({"hello"}, {}, {}, {Rel(<<"kurta", "p", "123456">>)}),
        Page({"hello"}, {}, {}, {Rel(<<"category", "shoes">>)})}
  ELSE {Page({"hello"}, {}, {}, {Rel(<<"shirt", "p-mp0001">>)})}

\* The seed URLs the modelled sites have nothing under: all but the home
\* page and the first MaxLivePaths seed paths.
NotFound ==
  UNION {{SeedQueue(d)[i] : i \in (MaxLivePaths + 2)..Len(SeedQueue(d))} :
           d \in UNION {Range(list) : list \in DomainLists}}

\* The answers to a page GET: a status with a body, or no answer at all; a
\* URL the site has nothing under is answered 404.
Responses(domain, u) ==
  IF u \in NotFound
  THEN {[kind |-> "http", status |-> 404, length |-> 0, page |-> NoContent]}
  ELSE
  {[kind |-> "http", status |-> 200, length |-> MinContentLength, page |-> pg] :
     pg \in WebPages(domain)}
  \cup {[kind |-> "http", status |-> 200, length |-> MinContentLength - 1, page |-> NoContent]}
  \cup {[kind |-> "http", status |-> st, length |-> 0, page |-> NoContent] : st \in {403, 429, 500}}
  \cup {[kind |-> k, status |-> 0, length |-> 0, page |-> NoContent] : k \in {"timeout", "error"}}

\* What an API call of an enrichment step may come back with: no data (a
\* failure, a non-200 answer, an empty body), product records whose "url"
\* values are urls, or JSON of a shape the code does not expect, which
\* raises: at once, or at a record that is no dict after the "url" values
\* of the records before it have been added.
ApiAnswers(domain) ==
  {[kind |-> "none", urls |-> {}],
   [kind |-> "products", urls |-> {Rel(<<"kurta", "p", "6826">>)}],
   [kind |-> "unexpected", urls |-> {}],
   [kind |-> "unexpected", urls |-> {Rel(<<"kurta", "p", "6826">>)}]}

\* The domains of the crawler _is_product_url is called on directly.
ClassifyDomains == <<Shop, Cdn>>

\* The URLs _is_product_url is called with directly: the two of the
\* collections scenario, /product-name/p/123456, /product-name-123456,
\* /about-us, URLs of two and of three segments that no pattern of
\* PRODUCT_URL_PATTERNS matches, on the one domain and the other, and /(sale/x1.
ClassifyUrls ==
  {urljoin(Shop, Rel(path)) :
     path \in {<<"collections", "summer", "item-42">>, <<"collections", "winter", "item-77">>,
               <<"deals", "tv">>, <<"deals", "radio">>,
               <<"top", "x1", "x2">>, <<"top", "x3", "x4">>,
               <<"product-name", "p", "123456">>, <<"product-name-123456">>, <<"about-us">>,
               <<"(sale", "x1">>}}
  \cup {urljoin(Cdn, Rel(path)) :
          path \in {<<"deals", "tv">>, <<"top", "x3", "x4">>, <<"kurta", "p", "6826">>}}

\* The html_content of the direct calls: None, a page without indicators, a
\* page with the two tokens data-product-id and add-to-cart, and a page
\* without indicators whose heading is <h1 class="title">.
ClassifyContents ==
  {NoContent, Page({"hello"}, {}, {}, {}), Page({"data-product-id", "add-to-cart"}, {}, {}, {}),
   Page({"hello"}, {[tag |-> "h1", class |-> "title"]}, {}, {})}

\* The domains, pages, hrefs and URLs of the modelled sites.  What the code
\* computes from a URL or a page alone is computed once for each of them
\* (MatchedUrls, TokenCounts) and looked up from then on.
ModelDomains == UNION {Range(list) : list \in DomainLists}
ModelPages == UNION {WebPages(d) : d \in ModelDomains} \cup (ClassifyContents \ {NoContent})
ModelHrefs(d) ==
  UNION {pg.hrefs \cup pg.base \cup {c.link : c \in pg.cards} : pg \in WebPages(d)}
  \cup UNION {a.urls : a \in ApiAnswers(d)}
ModelUrls ==
  UNION {Range(SeedQueue(d)) \cup ModelHrefs(d)
         \cup {urljoin(d, h) : h \in ModelHrefs(d)}
         \cup {CleanUrl(urljoin(d, h)) : h \in ModelHrefs(d)} : d \in ModelDomains}
  \cup ClassifyUrls

\* ------------------------------------------------------------------------
\* The product classifier
\* ------------------------------------------------------------------------
PRODUCT_INDICATORS ==
  <<"data-product-id", "product-id", "productId", "data-pid", "data-sku",
     "sku-id", "skuId", "item-id", "itemId", "data-item-id", "variant-id",
     "variantId", "add-to-cart", "add_to_cart", "addToCart", "add-to-bag",
     "add_to_bag", "addToBag", "buy-now", "buy_now", "buyNow",
     "add-to-wishlist", "add_to_wishlist", "addToWishlist",
     "product-details", "product_details", "productDetails",
     "product-description", "product_description", "productDescription",
     "product-title", "product_title", "productTitle", "item-details",
     "item_details", "itemDetails", "product-price", "product_price",
     "productPrice", "current-price", "current_price", "currentPrice",
     "sale-price", "sale_price", "salePrice", "product-reviews",
     "product_reviews", "productReviews", "customer-reviews",
     "customer_reviews", "customerReviews", "size-selector", "size_selector",
     "sizeSelector", "color-selector", "color_selector", "colorSelector",
     "mrp", "buyNowButton", "addToBagButton", "pincode-check",
     "pincode_check", "pincodeCheck", "delivery-options", "delivery_options",
     "deliveryOptions", "emi-options", "emi_options", "emiOptions" >>

\* The elements of the page as (tag, class).
Elements(content) ==
  content.elems \cup {[tag |-> c.tag, class |-> c.class] : c \in content.cards}

\* The pieces of text of the page's markup: an element's class is spelled in it.
Fragments(content) == content.text \cup {e.class : e \in Elements(content)}

\* 'needle' in html_content
HtmlContains(content, needle) ==
  \E f \in Fragments(content) : Search(Regex(Lit(needle), FALSE), Chars[f])

\* indicator_count once the loop over PRODUCT_INDICATORS has run to its end
CountIndicators(content) ==
  Cardinality({i \in 1..Len(PRODUCT_INDICATORS) : HtmlContains(content, PRODUCT_INDICATORS[i])})

TokenCounts == [pg \in ModelPages |-> CountIndicators(pg)]

IndicatorCount(content) ==
  IF content \in ModelPages THEN TokenCounts[content] ELSE CountIndicators(content)

\* A learned pattern f"/{segments[1]}/" or f"/{segments[1]}/{segments[2]}/" is
\* kept as its segments; re.search reads it as a regex.
LearnedChars(pat) == JoinSegs(pat) \o <<"/">>
LearnedRegex(pat) == Regex(PatternAtoms(LearnedChars(pat)), FALSE)

\* Every ")" of the characters closes a "(" and every "(" is closed.
ParensBalanced(cs) ==
  /\ \A n \in 1..Len(cs) :
       Cardinality({i \in 1..n : cs[i] = ")"}) <= Cardinality({i \in 1..n : cs[i] = "("})
  /\ Cardinality({i \in 1..Len(cs) : cs[i] = ")"})
       = Cardinality({i \in 1..Len(cs) : cs[i] = "("})

\* re.search(pattern, url) compiles the learned pattern: a segment with a "("
\* that nothing closes, or a ")" that closes nothing, makes it raise
\* re.error.  (The segments of the modelled URLs have no other character
\* that is special in a regex but "." and the parentheses.)
Compiles(pat) == ParensBalanced(LearnedChars(pat))

\* Some pattern of PRODUCT_URL_PATTERNS matches the URL.
SearchGlobalPatterns(u) ==
  \E k \in 1..Len(PRODUCT_URL_PATTERNS) : Search(PRODUCT_URL_PATTERNS[k], UrlChars(u))

MatchedUrls == {u \in ModelUrls : SearchGlobalPatterns(u)}

MatchesGlobalPattern(u) ==
  IF u \in ModelUrls THEN u \in MatchedUrls ELSE SearchGlobalPatterns(u)

\* Some learned pattern of the list matches the URL, and the loop gets to
\* it: the patterns before it compile, as it does.
MatchesLearnedPattern(u, patterns) ==
  \E k \in 1..Len(patterns) :
    /\ \A j \in 1..k : Compiles(patterns[j])
    /\ Search(LearnedRegex(patterns[k]), UrlChars(u))

\* A validation that asks for four segments or more.
DeepPathsOnly(segments) == Len(segments) >= 4

\* The validation of a URL that a pattern matched: the same for every pattern.
ShapeAccepts(segments) ==
  \/ /\ Len(segments) >= 2
     /\ \/ Len(segments) = 3 /\ segments[2] = "p" /\ IsDigit(segments[3])
        \/ Len(segments) = 2 /\ IsDigit(segments[2])
        \/ /\ Len(segments) = 1
           /\ Search(Anchored(<<Plus(NotSlash)>> \o Lit("-") \o <<Plus(DigitClass)>>),
                     Chars[segments[1]])
        \/ /\ Len(segments) = 2
           /\ Search(Anchored(Lit("p-") \o <<Plus(LowerAlnum)>>), Chars[segments[2]])
  \/ Len(segments) >= 3

\* The URL-pattern stage of _is_product_url: the loop returns True at the
\* first matching pattern whose URL passes the validation.
UrlStage(u, patterns) ==
  /\ MatchesGlobalPattern(u) \/ MatchesLearnedPattern(u, patterns)
  /\ ShapeAccepts(StripSplit(u))

\* Some learned pattern of the list does not compile.
Uncompilable(patterns) == \E k \in 1..Len(patterns) : ~Compiles(patterns[k])

\* The loop of the URL-pattern stage comes to a learned pattern that does not
\* compile before it has returned True: re.error leaves _is_product_url.
PatternRaises(u, patterns) ==
  /\ Uncompilable(patterns)
  /\ ~UrlStage(u, patterns)

\* soup.select('.product-title, .product_title, .product-name, .product_name, h1.title')
TitleElements(content) ==
  {e \in Elements(content) :
     \/ e.class \in {"product-title", "product_title", "product-name", "product_name"}
     \/ e.tag = "h1" /\ e.class = "title"}

\* The content stage once fewer than two indicators were found.  The select
\* for the cart buttons is no CSS selector: it raises, the except clause
\* swallows it, and the page with a price element is no product.
MarkupStage(content) ==
  \/ HtmlContains(content, "itemtype=\"http://schema.org/Product\"")
  \/ HtmlContains(content, "itemtype=\"https://schema.org/Product\"")
  \/ TitleElements(content) # {}

\* _is_product_url(url, html_content) returns True, with patterns the
\* patterns learned so far for the URL's domain.
_is_product_url(u, content, patterns) ==
  \/ UrlStage(u, patterns)
  \/ /\ ~Uncompilable(patterns)
     /\ ~content.none
     /\ IndicatorCount(content) >= 2 \/ MarkupStage(content)

\* An append that does not look whether pat is in the list.
AppendAlways(patterns, pat) == Append(patterns, pat)

\* The list with pat appended unless it is in it.
AppendNew(patterns, pat) ==
  IF \E k \in 1..Len(patterns) : patterns[k] = pat THEN patterns ELSE Append(patterns, pat)

\* A learning step that does not wait for the URL stage to fail.
LearnFromAnyProduct(u, content, patterns) ==
  IF content.none \/ IndicatorCount(content) < 2 \/ SplitLen(u) < 3 THEN patterns
  ELSE IF SplitLen(u) < 4 THEN AppendNew(patterns, <<u.path[1]>>)
  ELSE AppendNew(AppendNew(patterns, <<u.path[1]>>), <<u.path[1], u.path[2]>>)

\* _is_product_url(url, html_content): the domain's patterns after the call.
LearnPatterns(u, content, patterns) ==
  IF \/ UrlStage(u, patterns) \/ Uncompilable(patterns)
     \/ content.none \/ IndicatorCount(content) < 2
  THEN patterns
  ELSE IF SplitLen(u) < 3 THEN patterns
  ELSE LET first == AppendNew(patterns, <<u.path[1]>>)
       IN IF SplitLen(u) < 4 THEN first
          ELSE AppendNew(first, <<u.path[1], u.path[2]>>)

\* ------------------------------------------------------------------------
\* State
\* ------------------------------------------------------------------------
VARIABLES
  domains,                  \* self.domains
  max_pages_per_domain,     \* self.max_pages_per_domain
  max_concurrent_requests,  \* self.max_concurrent_requests
  visited_urls,             \* self.visited_urls[domain]
  product_urls,             \* self.product_urls[domain]
  domain_patterns,          \* self.domain_patterns[domain]
  elapsed,                  \* time.time() - self.last_request_time[domain], capped
  pc,                       \* where the _crawl_domain task of each domain stands
  queue,                    \* queue of _crawl_domain
  tasks,                    \* the _fetch_page tasks of the batch, in batch order
  next_result,              \* how many results of the batch the loop has processed
  new_urls,                 \* new_urls of _crawl_domain
  pause,                    \* what is left of the sleep between batches
  api_page,                 \* page of range(1, 4) the enrichment of a result is at
  attempts,                 \* history: how many times each URL was dispatched
  gate_gap,                 \* history: the time between the last two passes of the gate
  calls,                    \* history: the direct calls of a method of the crawler, in order
  results                   \* what the caller of crawl() holds of get_results()

vars ==
  <<domains, max_pages_per_domain, max_concurrent_requests, visited_urls,
    product_urls, domain_patterns, elapsed, pc, queue, tasks, next_result,
    new_urls, pause, api_page, attempts, gate_gap, calls, results>>

config == <<domains, max_pages_per_domain, max_concurrent_requests>>

Engines == 1..Len(domains)

\* The position a slice bound n stands for in a list of length len.
SliceBound(n, len) == IF n < 0 THEN (IF len + n < 0 THEN 0 ELSE len + n) ELSE Min(n, len)

\* q[:n] and q[n:]
\* The slice of as many elements from the back of the list.
TakeLast(q, n) == SubSeq(q, Len(q) - SliceBound(n, Len(q)) + 1, Len(q))

SliceTo(q, n) == SubSeq(q, 1, SliceBound(n, Len(q)))
SliceFrom(q, n) == SubSeq(q, SliceBound(n, Len(q)) + 1, Len(q))

\* The bag with one more occurrence of each element of the sequence.
RECURSIVE Counted(_, _)
Counted(bag, seq) ==
  IF seq = <<>> THEN bag
  ELSE LET u == Head(seq)
           more == IF u \in DOMAIN bag THEN [bag EXCEPT ![u] = @ + 1] ELSE bag @@ (u :> 1)
       IN Counted(more, Tail(seq))

\* The state once the constructor has returned.
\* crawl() has not returned.
NoResults == [returned |-> FALSE]

\* The dictionaries of __init__, one entry for each domain, and the crawl
\* not yet started.
Constructed ==
  /\ visited_urls = [d \in Range(domains) |-> {}]
  /\ product_urls = [d \in Range(domains) |-> {}]
  /\ domain_patterns = [d \in Range(domains) |-> <<>>]
  /\ elapsed = [d \in Range(domains) |-> RequestDelay(d)]
  /\ pc = [e \in Engines |-> "start"]
  /\ queue = [e \in Engines |-> <<>>]
  /\ tasks = [e \in Engines |-> <<>>]
  /\ next_result = [e \in Engines |-> 0]
  /\ new_urls = [e \in Engines |-> <<>>]
  /\ pause = [e \in Engines |-> 0]
  /\ api_page = [e \in Engines |-> 0]
  /\ attempts = [d \in Range(domains) |-> <<>>]
  /\ gate_gap = [d \in Range(domains) |-> RequestDelay(d)]
  /\ calls = <<>>
  /\ results = NoResults

\* The page budgets tried for a domains list: the small ones and, for a
\* single domain, those that let the crawl go up to MaxBeyondSeeds pages
\* past its seed URLs.
PageBudgets(list) ==
  IF Len(list) > 1 THEN 0..MaxPagesMany
  ELSE 0..MaxPages \cup {Len(SeedQueue(list[1])) + k : k \in 0..MaxBeyondSeeds}

\* The crawler EcommerceProductCrawler(domains, max_pages_per_domain,
\* max_concurrent_requests) constructs.
Init ==
  /\ domains \in DomainLists
  /\ max_pages_per_domain \in PageBudgets(domains)
  /\ max_concurrent_requests \in
       0..(IF Len(domains) > 1 THEN MaxConcurrentMany ELSE MaxConcurrent)
  /\ Constructed

\* The while loop of engine e goes round without reaching an await: the
\* batch queue[:batch_size] is empty (with a cap of 0 it is queue[:0]), so
\* queue[batch_size:] is the queue as it was and "if not batch: continue"
\* leads back to a loop test that is still true.
Spins(e) ==
  /\ pc[e] = "loop"
  /\ queue[e] # <<>>
  /\ Cardinality(visited_urls[domains[e]]) < max_pages_per_domain
  /\ SliceBound(Min(Len(queue[e]), max_concurrent_requests), Len(queue[e])) = 0

\* No _crawl_domain task keeps the event loop to itself: the other tasks
\* and callbacks get their turn.
Yields == \A e \in Engines : ~Spins(e)

\* _crawl_domain up to its while loop.  asyncio.gather starts the
\* _crawl_domain tasks in the order of self.domains.
StartCrawl(e) ==
  /\ Yields
  /\ \A f \in 1..(e - 1) : pc[f] # "start"
  /\ pc[e] = "start"
  /\ queue' = [queue EXCEPT ![e] = SeedQueue(domains[e])]
  /\ pc' = [pc EXCEPT ![e] = "loop"]
  /\ UNCHANGED <<config, api_page, results, calls, visited_urls, product_urls, domain_patterns, elapsed, tasks,
                 next_result, new_urls, pause, attempts, gate_gap>>

\* A _fetch_page task that has not run yet.  product is history: whether the
\* task got a 200 answer with a body long enough and classified it a product.
NewTask(u) == [url |-> u, pc |-> "start", rem |-> 0, content |-> NoContent,
               page |-> NoContent, api |-> 0, product |-> FALSE]

\* One pass of the while loop up to asyncio.gather: leave the loop, or take
\* a batch off the queue and start a fetch for each of its URLs not yet visited.
TakeBatch(e) ==
  LET d == domains[e]
      batch_size == Min(Len(queue[e]), max_concurrent_requests)
      batch == SelectSeq(SliceTo(queue[e], batch_size), LAMBDA u : u \notin visited_urls[d])
  IN /\ pc[e] = "loop"
     /\ \A f \in Engines \ {e} : ~Spins(f)
     /\ IF queue[e] = <<>> \/ Cardinality(visited_urls[d]) >= max_pages_per_domain
        THEN /\ pc' = [pc EXCEPT ![e] = "done"]
             /\ UNCHANGED <<queue, tasks, attempts>>
        ELSE /\ queue' = [queue EXCEPT ![e] = SliceFrom(queue[e], batch_size)]
             /\ tasks' = [tasks EXCEPT ![e] = [i \in 1..Len(batch) |-> NewTask(batch[i])]]
             /\ pc' = [pc EXCEPT ![e] = IF batch = <<>> THEN "loop" ELSE "gather"]
             /\ attempts' = [attempts EXCEPT ![d] = Counted(@, batch)]
     /\ UNCHANGED <<config, api_page, results, calls, visited_urls, product_urls, domain_patterns, elapsed,
                    next_result, new_urls, pause, gate_gap>>

\* ------------------------------------------------------------------------
\* _fetch_page: one task per URL of the batch
\* ------------------------------------------------------------------------
TaskIds(e) == 1..Len(tasks[e])

\* tasks with the fields of task i of engine e set as in the record new.
SetTask(e, i, new) == [tasks EXCEPT ![e][i] = new]

\* return url, content (None when content is NoContent)
Returned(t, content) == [t EXCEPT !.pc = "done", !.content = content, !.rem = 0, !.api = 0]

\* self.last_request_time[domain] = time.time()
Stamp(d) ==
  /\ elapsed' = [elapsed EXCEPT ![d] = 0]
  /\ gate_gap' = [gate_gap EXCEPT ![d] = elapsed[d]]

\* The rate limiting of _fetch_page up to its first await: sleep when the last
\* request to the domain is less than the delay ago, else stamp and request.
\* self.last_request_time has the configured domains as its keys: for a URL
\* whose scheme and host are none of them the lookup raises KeyError, outside
\* the try of _fetch_page; asyncio.gather raises it in _crawl_domain.
Gate(e, i) ==
  LET t == tasks[e][i]
      d == _extract_domain(t.url)
  IN /\ Yields
     /\ \A f \in Engines : pc[f] # "start"
     /\ pc[e] = "gather"
     /\ t.pc = "start"
     /\ IF d \notin Range(domains)
        THEN /\ pc' = [pc EXCEPT ![e] = "failed"]
             /\ UNCHANGED <<tasks, elapsed, gate_gap>>
        ELSE IF elapsed[d] < RequestDelay(d)
        THEN /\ \E jitter \in 0..JitterMax :
                  tasks' = SetTask(e, i, [t EXCEPT !.pc = "sleep",
                                            !.rem = RequestDelay(d) - elapsed[d] + jitter])
             /\ UNCHANGED <<pc, elapsed, gate_gap>>
        ELSE /\ Stamp(d)
             /\ tasks' = SetTask(e, i, [t EXCEPT !.pc = "request"])
             /\ UNCHANGED pc
     /\ UNCHANGED <<config, api_page, results, calls, visited_urls, product_urls, domain_patterns, queue,
                    next_result, new_urls, pause, attempts>>

\* The sleep of the rate limiting is over: stamp and request.
Wake(e, i) ==
  LET t == tasks[e][i]
  IN /\ Yields
     /\ pc[e] = "gather"
     /\ t.pc = "sleep"
     /\ t.rem = 0
     /\ Stamp(_extract_domain(t.url))
     /\ tasks' = SetTask(e, i, [t EXCEPT !.pc = "request"])
     /\ UNCHANGED <<config, api_page, results, calls, visited_urls, product_urls, domain_patterns, pc, queue,
                    next_result, new_urls, pause, attempts>>

\* _process_product_page(session, url, domain) up to its first await, for a
\* page the task classified as a product: the task as it goes on.  A site
\* configuration without the 'product' endpoint raises KeyError, which the
\* except clause of _fetch_page turns into (url, None).
EnterProductPage(t, domain, page) ==
  IF ~HasProductId(t.url) THEN Returned(t, page)
  ELSE IF IsNykaa(domain)
       THEN IF "product" \in ApiEndpoints(domain)
            THEN [t EXCEPT !.pc = "api", !.api = 1, !.page = page]
            ELSE Returned(t, NoContent)
  ELSE IF IsTataCliq(domain)
       THEN IF "product" \in ApiEndpoints(domain)
            THEN [t EXCEPT !.pc = "api", !.api = 3, !.page = page]
            ELSE Returned(t, NoContent)
  ELSE Returned(t, page)

\* The task after a 200 answer with a body long enough.  When the URL stage
\* has not returned True and a learned pattern does not compile,
\* _is_product_url raises: the except clause of _fetch_page catches it and
\* returns (url, None).
AfterBody(t, domain, page) ==
  IF _is_product_url(t.url, page, domain_patterns[domain])
  THEN EnterProductPage([t EXCEPT !.product = TRUE], domain, page)
  ELSE IF Uncompilable(domain_patterns[domain]) THEN Returned(t, NoContent)
  ELSE Returned(t, page)

\* The answer to the GET arrives (or the GET fails).
Respond(e, i) ==
  LET t == tasks[e][i]
      d == _extract_domain(t.url)
  IN /\ Yields
     /\ pc[e] = "gather"
     /\ t.pc = "request"
     /\ \E r \in Responses(d, t.url) :
          IF r.kind = "http" /\ r.status = 200 /\ r.length >= MinContentLength
          THEN /\ tasks' = SetTask(e, i, AfterBody(t, d, r.page))
               /\ domain_patterns' =
                    [domain_patterns EXCEPT ![d] = LearnPatterns(t.url, r.page, @)]
          ELSE /\ tasks' = SetTask(e, i,
                    IF r.kind = "http" /\ r.status = 429
                    THEN [t EXCEPT !.pc = "backoff", !.rem = RateLimitBackoff]
                    ELSE Returned(t, NoContent))
               /\ UNCHANGED domain_patterns
     /\ UNCHANGED <<config, api_page, results, calls, visited_urls, product_urls, elapsed, pc, queue,
                    next_result, new_urls, pause, attempts, gate_gap>>

\* await asyncio.sleep(10) after a 429 is over.
BackoffDone(e, i) ==
  LET t == tasks[e][i]
  IN /\ Yields
     /\ pc[e] = "gather"
     /\ t.pc = "backoff"
     /\ t.rem = 0
     /\ tasks' = SetTask(e, i, Returned(t, NoContent))
     /\ UNCHANGED <<config, api_page, results, calls, visited_urls, product_urls, domain_patterns, elapsed, pc,
                    queue, next_result, new_urls, pause, attempts, gate_gap>>

\* One of the API calls of _process_product_page comes back.
ApiReply(e, i) ==
  LET t == tasks[e][i]
      d == _extract_domain(t.url)
  IN /\ Yields
     /\ pc[e] = "gather"
     /\ t.pc = "api"
     /\ \E a \in ApiAnswers(d) :
          /\ tasks' = SetTask(e, i,
               IF a.kind = "unexpected" THEN Returned(t, NoContent)
               ELSE IF t.api < 3 THEN [t EXCEPT !.api = @ + 1]
               ELSE IF IsNykaa(d) THEN [t EXCEPT !.pc = "category", !.api = 0]
               ELSE Returned(t, t.page))
          /\ product_urls' = [product_urls EXCEPT ![d] = @ \cup a.urls]
     /\ UNCHANGED <<config, api_page, results, calls, visited_urls, domain_patterns, elapsed, pc, queue,
                    next_result, new_urls, pause, attempts, gate_gap>>

\* The hrefs of soup.select('a[href*="/category/"], a[href*="/collection/"]'):
\* of the <a> elements alone.
CategoryHrefs(page) ==
  {h \in page.hrefs : UrlContains(h, "/category/") \/ UrlContains(h, "/collection/")}

\* The GET of _process_product_page for the category links comes back: the
\* same-domain category links of a 200 answer go into visited_urls.
CategoryGet(e, i) ==
  LET t == tasks[e][i]
      d == _extract_domain(t.url)
  IN /\ Yields
     /\ pc[e] = "gather"
     /\ t.pc = "category"
     /\ \E found \in {{}} \cup {CategoryHrefs(pg) : pg \in WebPages(d)} :
          visited_urls' = [visited_urls EXCEPT ![d] =
            @ \cup {urljoin(d, h) : h \in {g \in found : _is_same_domain(urljoin(d, g), d)}}]
     /\ tasks' = SetTask(e, i, Returned(t, t.page))
     /\ UNCHANGED <<config, api_page, results, calls, product_urls, domain_patterns, elapsed, pc, queue,
                    next_result, new_urls, pause, attempts, gate_gap>>

\* ------------------------------------------------------------------------
\* _crawl_domain: the results of a batch

\* ------------------------------------------------------------------------
\* The orders list(set(links)) may come in.
Orders(S) ==
  {f \in [1..Cardinality(S) -> S] : \A i, j \in 1..Cardinality(S) : f[i] = f[j] => i = j}

\* '/c/' in url
HasCategoryMarker(u) == UrlContains(u, "/c/")

\* re.search(r'/c/(\d+)$', urlparse(url).path)
HasCategoryId(u) == Search(Regex(Lit("/c/") \o <<Plus(DigitClass)>>, TRUE), PathChars(u))

\* A loop body that records the URL of every result, fetched or not.
ResultFoundUnfetched(url, content, product) == {url}

\* A loop body that records the URL of every fetched page, product or not.
ResultFoundUnclassified(url, content, product) == IF content.none THEN {} ELSE {url}

\* The product URLs the loop body adds for result (url, content) before it
\* awaits anything; product is what _is_product_url(url, content) returned.
ResultFound(url, content, product) == IF ~content.none /\ product THEN {url} ELSE {}

\* What _is_product_url raises in the loop body leaves _crawl_domain (it
\* raises when it does not return True and a learned pattern does not
\* compile).
ResultRaises(d, content, product) ==
  ~content.none /\ ~product /\ Uncompilable(domain_patterns[d])

\* Where the loop body suspends for the result, "" when it runs to its end
\* without giving the event loop a turn: in _process_nykaa_product at the
\* GET of the page, unless the URL has no product id, or in
\* _process_nykaa_category at the first call of the category API, unless
\* the path does not end in /c/ and digits.
Suspends(d, url, content, product) ==
  IF content.none \/ ~IsNykaa(d) THEN ""
  ELSE IF product THEN (IF HasProductId(url) THEN "product_get" ELSE "")
  ELSE IF HasCategoryMarker(url) /\ HasCategoryId(url) THEN "category_listing"
  ELSE ""

\* The links of the result that go to new_urls, in the order the loop meets them.
FreshLinks(e, url, order) ==
  SelectSeq(order, LAMBDA u : u \notin visited_urls[domains[e]] \cup {url}
                              /\ u \notin Range(queue[e]))

\* The assignments of the loop body for one result that runs to its end;
\* after the last result, queue.extend(new_urls) and the sleep between
\* batches starts.
StoreResult(e, d, url, found, learned, fresh, failed, last, nap) ==
  /\ visited_urls' = [visited_urls EXCEPT ![d] = @ \cup {url}]
  /\ product_urls' = [product_urls EXCEPT ![d] = @ \cup found]
  /\ domain_patterns' = [domain_patterns EXCEPT ![d] = learned]
  /\ pc' = [pc EXCEPT ![e] = IF failed THEN "failed" ELSE IF last THEN "pause" ELSE "gather"]
  /\ next_result' = [next_result EXCEPT ![e] = IF last \/ failed THEN 0 ELSE @ + 1]
  /\ tasks' = [tasks EXCEPT ![e] = IF last \/ failed THEN <<>> ELSE @]
  /\ queue' = [queue EXCEPT ![e] = IF last /\ ~failed THEN @ \o new_urls[e] \o fresh ELSE @]
  /\ new_urls' = [new_urls EXCEPT ![e] = IF last \/ failed THEN <<>> ELSE @ \o fresh]
  /\ pause' = [pause EXCEPT ![e] = IF last /\ ~failed THEN nap ELSE @]
  /\ api_page' = [api_page EXCEPT ![e] = 0]

\* The assignments of the loop body for one result up to the await it
\* suspends at.
SuspendResult(e, d, url, found, learned, stop) ==
  /\ visited_urls' = [visited_urls EXCEPT ![d] = @ \cup {url}]
  /\ product_urls' = [product_urls EXCEPT ![d] = @ \cup found]
  /\ domain_patterns' = [domain_patterns EXCEPT ![d] = learned]
  /\ pc' = [pc EXCEPT ![e] = stop]
  /\ api_page' = [api_page EXCEPT ![e] = IF stop = "category_listing" THEN 1 ELSE 0]
  /\ UNCHANGED <<next_result, tasks, queue, new_urls, pause>>

\* The links of a result: none when the fetch returned no content.
ResultLinks(t) == IF t.content.none THEN {} ELSE _extract_links(t.url, t.content)

\* The loop body for result t from its start, to its end or to its first await.
StartResult(e, d, t, found, learned, raises, stop) ==
  IF stop = "" \/ raises
  THEN \E order \in Orders(ResultLinks(t)), nap \in PauseMin..PauseMax :
         StoreResult(e, d, t.url, found, learned, FreshLinks(e, t.url, order), raises,
                     next_result[e] + 1 = Len(tasks[e]), nap)
  ELSE SuspendResult(e, d, t.url, found, learned, stop)

\* The body of "for url, content in results" for the next result, as far
\* as it runs before the event loop gets a turn.
ProcessResult(e) ==
  /\ Yields
  /\ pc[e] = "gather"
  /\ \A i \in TaskIds(e) : tasks[e][i].pc = "done"
  /\ \E t \in {tasks[e][next_result[e] + 1]} :
     \E product \in {_is_product_url(t.url, t.content, domain_patterns[domains[e]])} :
       StartResult(e, domains[e], t,
                   ResultFound(t.url, t.content, product),
                   LearnPatterns(t.url, t.content, domain_patterns[domains[e]]),
                   ResultRaises(domains[e], t.content, product),
                   Suspends(domains[e], t.url, t.content, product))
  /\ UNCHANGED <<config, results, calls, elapsed, attempts, gate_gap>>

\* The loop body goes on after the enrichment of the result: found goes to
\* product_urls, then the links of the result are extracted, or failed
\* leaves _crawl_domain.
ResumeResult(e, found, failed) ==
  \E t \in {tasks[e][next_result[e] + 1]} :
  \E order \in Orders(ResultLinks(t)), nap \in PauseMin..PauseMax :
    StoreResult(e, domains[e], t.url, found, domain_patterns[domains[e]],
                FreshLinks(e, t.url, order), failed,
                next_result[e] + 1 = Len(tasks[e]), nap)

\* What the GET of _process_nykaa_product may come to: a 200 answer whose
\* page has a <meta name="category-id"> with a content, a 200 answer
\* without one, and another status or an exception.
ProductGets == {"listed", "plain", "none"}

\* The GET of _process_nykaa_product comes back.  The except clause of
\* _process_nykaa_product swallows what it raises.
ProductGet(e) ==
  /\ Yields
  /\ pc[e] = "product_get"
  /\ \E r \in ProductGets :
       IF r = "none" THEN ResumeResult(e, {}, FALSE)
       ELSE /\ pc' = [pc EXCEPT ![e] = IF r = "listed" THEN "product_listing"
                                       ELSE "product_similar"]
            /\ api_page' = [api_page EXCEPT ![e] = IF r = "listed" THEN 1 ELSE 0]
            /\ UNCHANGED <<visited_urls, product_urls, domain_patterns, next_result, tasks,
                           queue, new_urls, pause>>
  /\ UNCHANGED <<config, results, calls, elapsed, attempts, gate_gap>>

\* An API call of the enrichment of a result comes back: a page of the
\* category listing or the similar products of _process_nykaa_product,
\* whose "url" values go to product_urls as they are and whose exceptions
\* are swallowed, or a page of the category listing of
\* _process_nykaa_category, whose "url" values are joined to the domain and
\* whose exceptions leave _crawl_domain.
EnrichReply(e) ==
  /\ Yields
  /\ pc[e] \in {"product_listing", "product_similar", "category_listing"}
  /\ \E a \in ApiAnswers(domains[e]) :
       IF pc[e] = "product_similar"
       THEN ResumeResult(e, a.urls, FALSE)
       ELSE IF a.kind = "unexpected"
       THEN ResumeResult(e, IF pc[e] = "category_listing"
                            THEN {urljoin(domains[e], h) : h \in a.urls} ELSE a.urls,
                         pc[e] = "category_listing")
       ELSE IF pc[e] = "category_listing" /\ api_page[e] = 3
       THEN ResumeResult(e, {urljoin(domains[e], h) : h \in a.urls}, FALSE)
       ELSE /\ product_urls' =
                 [product_urls EXCEPT ![domains[e]] =
                    @ \cup IF pc[e] = "category_listing"
                           THEN {urljoin(domains[e], h) : h \in a.urls} ELSE a.urls]
            /\ pc' = [pc EXCEPT ![e] = IF api_page[e] = 3 THEN "product_similar" ELSE @]
            /\ api_page' = [api_page EXCEPT ![e] = IF api_page[e] = 3 THEN 0 ELSE @ + 1]
            /\ UNCHANGED <<visited_urls, domain_patterns, next_result, tasks, queue,
                           new_urls, pause>>
  /\ UNCHANGED <<config, results, calls, elapsed, attempts, gate_gap>>

\* await asyncio.sleep(random.uniform(0.5, 1.0)) is over: back to the while.
PauseDone(e) ==
  /\ Yields
  /\ pc[e] = "pause"
  /\ pause[e] = 0
  /\ pc' = [pc EXCEPT ![e] = "loop"]
  /\ UNCHANGED <<config, api_page, results, calls, visited_urls, product_urls, domain_patterns, elapsed, queue,
                 tasks, next_result, new_urls, pause, attempts, gate_gap>>

\* ------------------------------------------------------------------------
\* Time
\* ------------------------------------------------------------------------
Dec(n) == IF n > 0 THEN n - 1 ELSE 0

\* Half a second passes: sleeps get shorter, the last requests older.
Tick ==
  /\ \/ \E e \in Engines : pause[e] > 0 \/ \E i \in TaskIds(e) : tasks[e][i].rem > 0
     \/ \E d \in Range(domains) : elapsed[d] < RequestDelay(d)
  /\ tasks' = [e \in Engines |-> [i \in TaskIds(e) |-> [tasks[e][i] EXCEPT !.rem = Dec(@)]]]
  /\ pause' = [e \in Engines |-> Dec(pause[e])]
  /\ elapsed' = [d \in Range(domains) |-> Min(elapsed[d] + 1, RequestDelay(d))]
  /\ UNCHANGED <<config, api_page, results, calls, visited_urls, product_urls, domain_patterns, pc, queue,
                 next_result, new_urls, attempts, gate_gap>>

\* ------------------------------------------------------------------------
\* crawl(): the _crawl_domain tasks of all domains, and their fetches
\* ------------------------------------------------------------------------
\* The exception that left a _crawl_domain task leaves asyncio.gather and
\* crawl(); asyncio.run cancels the _crawl_domain tasks still running.
CrawlAborts ==
  /\ Yields
  /\ \E e \in Engines : pc[e] = "failed"
  /\ \E e \in Engines : pc[e] \notin {"done", "failed", "cancelled"}
  /\ pc' = [e \in Engines |-> IF pc[e] \in {"done", "failed"} THEN pc[e] ELSE "cancelled"]
  /\ UNCHANGED <<config, api_page, results, calls, visited_urls, product_urls, domain_patterns, elapsed, queue,
                 tasks, next_result, new_urls, pause, attempts, gate_gap>>

\* get_results(): for each key of self.product_urls, list(urls) in one of the
\* orders the set may be listed in.
get_results ==
  {listing \in [DOMAIN product_urls -> UNION {Orders(product_urls[d]) : d \in DOMAIN product_urls}] :
     \A d \in DOMAIN product_urls : listing[d] \in Orders(product_urls[d])}

\* A caller that takes the results as soon as one _crawl_domain task is over.
CrawlReturnsEarly ==
  /\ Yields
  /\ ~results.returned
  /\ \E e \in Engines : pc[e] = "done"
  /\ \E listing \in get_results : results' = [returned |-> TRUE, products |-> listing]
  /\ UNCHANGED <<config, api_page, calls, visited_urls, product_urls, domain_patterns, elapsed, pc,
                 queue, tasks, next_result, new_urls, pause, attempts, gate_gap>>

\* await asyncio.gather(*tasks) is over with every _crawl_domain task
\* finished: crawl() returns and its caller calls get_results().
CrawlReturns ==
  /\ Yields
  /\ ~results.returned
  /\ \A e \in Engines : pc[e] = "done"
  /\ \E listing \in get_results : results' = [returned |-> TRUE, products |-> listing]
  /\ UNCHANGED <<config, api_page, calls, visited_urls, product_urls, domain_patterns, elapsed, pc,
                 queue, tasks, next_result, new_urls, pause, attempts, gate_gap>>

Next ==
  \/ \E e \in Engines : StartCrawl(e)
  \/ \E e \in Engines : TakeBatch(e)
  \/ \E e \in Engines : \E i \in TaskIds(e) : Gate(e, i)
  \/ \E e \in Engines : \E i \in TaskIds(e) : Wake(e, i)
  \/ \E e \in Engines : \E i \in TaskIds(e) : Respond(e, i)
  \/ \E e \in Engines : \E i \in TaskIds(e) : BackoffDone(e, i)
  \/ \E e \in Engines : \E i \in TaskIds(e) : ApiReply(e, i)
  \/ \E e \in Engines : \E i \in TaskIds(e) : CategoryGet(e, i)
  \/ \E e \in Engines : ProcessResult(e)
  \/ \E e \in Engines : ProductGet(e)
  \/ \E e \in Engines : EnrichReply(e)
  \/ \E e \in Engines : PauseDone(e)
  \/ CrawlAborts
  \/ CrawlReturns
  \/ Tick

Spec == Init /\ [][Next]_vars

\* The event loop runs whatever can run, and time passes.
FairSpec == Spec /\ WF_vars(Next)

\* ------------------------------------------------------------------------
\* The classifier called directly
\* ------------------------------------------------------------------------
MaxCalls == 3

\* A crawler constructed for the one domain, before any crawl.
ClassifyInit ==
  /\ domains = ClassifyDomains
  /\ max_pages_per_domain = MaxPages
  /\ max_concurrent_requests = MaxConcurrent
  /\ Constructed

\* A classifier with one list of patterns for all domains: it consults the
\* patterns of every domain and stores what it learns in each list.
ClassifyShared(u, content) ==
  /\ Len(calls) < MaxCalls
  /\ domain_patterns' =
       [d \in DOMAIN domain_patterns |-> LearnPatterns(u, content, domain_patterns[d])]
  /\ calls' = Append(calls,
       [url |-> u, content |-> content,
        answer |-> \E d \in DOMAIN domain_patterns :
                     _is_product_url(u, content, domain_patterns[d]),
        raised |-> PatternRaises(u, domain_patterns[_extract_domain(u)]),
        learned |-> domain_patterns'[_extract_domain(u)]])
  /\ UNCHANGED <<config, api_page, results, visited_urls, product_urls, elapsed, pc, queue, tasks,
                 next_result, new_urls, pause, attempts, gate_gap>>

\* self._is_product_url(u, content): whether it returned True, whether it
\* raised, and the domain's patterns after it are written down in calls.
Classify(u, content) ==
  /\ Len(calls) < MaxCalls
  /\ domain_patterns' =
       [domain_patterns EXCEPT ![_extract_domain(u)] = LearnPatterns(u, content, @)]
  /\ calls' = Append(calls,
       [url |-> u, content |-> content,
        answer |-> _is_product_url(u, content, domain_patterns[_extract_domain(u)]),
        raised |-> PatternRaises(u, domain_patterns[_extract_domain(u)]),
        learned |-> domain_patterns'[_extract_domain(u)]])
  /\ UNCHANGED <<config, api_page, results, visited_urls, product_urls, elapsed, pc, queue, tasks,
                 next_result, new_urls, pause, attempts, gate_gap>>

ClassifyNext == \E u \in ClassifyUrls, content \in ClassifyContents : Classify(u, content)

ClassifySpec == ClassifyInit /\ [][ClassifyNext]_vars

\* ------------------------------------------------------------------------
\* The link extractor called directly
\* ------------------------------------------------------------------------
MaxExtracts == 2

\* The URLs of the pages links are extracted from.
ExtractUrls ==
  {Shop, MkUrl("https", "shop.example.com", <<"deals", "tv">>, FALSE, "page=2", "top"),
   MkUrl("https", "shop.example.com", <<"deals">>, TRUE, "", "")}

\* The hrefs of the pages: with and without scheme and host, with a query,
\* with a fragment, a query alone, a fragment alone, another host.
ExtractHrefs ==
  {Rel(<<"about-us">>),
   MkUrl("", "", <<"deals", "radio">>, FALSE, "page=2", "top"),
   MkUrl("", "", <<"deals">>, TRUE, "", "top"),
   MkUrl("", "", <<>>, FALSE, "page=2", ""),
   MkUrl("", "", <<>>, FALSE, "", "top"),
   MkUrl("https", "shop.example.com", <<"top", "x1">>, FALSE, "", "top"),
   MkUrl("https", "shop.example.com", <<>>, FALSE, "page=2", "top"),
   MkUrl("https", "cdn.example.net", <<"top">>, FALSE, "", "")}

\* The pages: one or two of the hrefs, with or without a <base href>, and
\* pages with a <div> of class product-card or title that has a data-url.
ExtractContents ==
  {Page({"hello"}, {}, base, hrefs) :
     base \in {{}, {MkUrl("https", "shop.example.com", <<"store">>, TRUE, "", "")}},
     hrefs \in {hs \in SUBSET ExtractHrefs : Cardinality(hs) \in {1, 2}}}
  \cup {CardPage({"hello"}, {}, {}, hrefs, {[tag |-> "div", class |-> cls, link |-> l]}) :
          hrefs \in {{}, {Rel(<<"about-us">>)}},
          cls \in {"product-card", "title"},
          l \in {Rel(<<"deals", "tv">>),
                 MkUrl("", "", <<"deals", "radio">>, FALSE, "page=2", "top")}}

\* The page that has the links of call k as its hrefs.
PageOfLinks(k) == Page({"hello"}, {}, {}, calls[k].links)

\* self._extract_links(u, content): the set of the links it returns is
\* written down in calls.
Extract(u, content) ==
  /\ Len(calls) < MaxExtracts
  /\ calls' = Append(calls, [url |-> u, content |-> content,
                             links |-> _extract_links(u, content)])
  /\ UNCHANGED <<config, api_page, results, visited_urls, product_urls, domain_patterns, elapsed, pc, queue,
                 tasks, next_result, new_urls, pause, attempts, gate_gap>>

\* The links are extracted from a page, or from a page made of the links
\* an earlier call returned.
ExtractNext ==
  \/ \E u \in ExtractUrls, content \in ExtractContents : Extract(u, content)
  \/ \E u \in ExtractUrls, k \in 1..Len(calls) : Extract(u, PageOfLinks(k))

ExtractSpec == ClassifyInit /\ [][ExtractNext]_vars


\* ------------------------------------------------------------------------
\* The properties of the crawl
\* ------------------------------------------------------------------------
\* How many times the URLs of domain d were dispatched to _fetch_page.
RECURSIVE BagSize(_)
BagSize(bag) ==
  IF DOMAIN bag = {} THEN 0
  ELSE LET u == CHOOSE x \in DOMAIN bag : TRUE
       IN bag[u] + BagSize([x \in DOMAIN bag \ {u} |-> bag[x]])

\* The URLs the step appends to the queue of engine e.
Appended(e) == SubSeq(queue'[e], Len(queue[e]) + 1, Len(queue'[e]))

\* All fetch tasks of the batch of engine e have completed: the join point,
\* and the loop over the results with the awaits of its enrichment.
Joined(e) ==
  /\ pc[e] \in {"gather", "product_get", "product_listing", "product_similar",
               "category_listing"}
  /\ \A i \in TaskIds(e) : tasks[e][i].pc = "done"

\* C1: in every reachable state, for every page budget and concurrency cap,
\* the visited set of every domain holds at most max_pages_per_domain URLs.
C1_BudgetRespected ==
  \A d \in Range(domains) : Cardinality(visited_urls[d]) <= max_pages_per_domain

\* C2: every URL of a domain is dispatched to _fetch_page at most once in a
\* run: no batch holds a visited URL, and no batch holds the same URL twice.
C2_DispatchedOnce ==
  /\ \A d \in Range(domains) : \A u \in DOMAIN attempts[d] : attempts[d][u] <= 1
  /\ \A e \in Engines : \A i, j \in TaskIds(e) : tasks[e][i].url = tasks[e][j].url => i = j

\* C3: two fetches of a domain pass the rate-limit gate at instants that are
\* at least the domain's request delay apart, also within one batch.
C3_GateSpacing ==
  \A d \in Range(domains) : gate_gap[d] >= RequestDelay(d)

\* C4: for every page budget and concurrency cap the constructor accepts,
\* when every fetch returns or times out, the loop of every domain exits.
C4_CrawlTerminates == <>(\A e \in Engines : pc[e] = "done")

\* C5: a crawl with page budget 5 that ends with URLs still queued (its
\* queue never emptied) has exactly 5 URLs in visited, whatever the cap.
C5_ExactlyFiveVisited ==
  \A e \in Engines :
    (max_pages_per_domain = 5 /\ pc[e] = "done" /\ queue[e] # <<>>)
      => Cardinality(visited_urls[domains[e]]) = 5

\* C6: the number of page fetches dispatched for a domain never exceeds
\* max_pages_per_domain.
C6_AttemptsWithinBudget ==
  \A d \in Range(domains) : BagSize(attempts[d]) <= max_pages_per_domain

\* C7: a page fetched with a 200 answer and a body long enough that the task
\* classified a product is no failed fetch whatever the enrichment did, and
\* once its result is processed its URL is in product_urls.
C7_EnrichmentSwallowed ==
  \A e \in Engines : \A i \in TaskIds(e) :
    (tasks[e][i].pc = "done" /\ tasks[e][i].product)
      => /\ ~tasks[e][i].content.none
         /\ i <= next_result[e] => tasks[e][i].url \in product_urls[domains[e]]

\* C8: visited_urls, product_urls and domain_patterns change only in steps
\* taken at the join point, when all fetch tasks of a batch have completed.
C8_WritesOnlyAtJoin ==
  [][<<visited_urls, product_urls, domain_patterns>>'
       # <<visited_urls, product_urls, domain_patterns>>
     => \E e \in Engines : Joined(e)]_vars

\* C9: every URL in visited_urls was dispatched to _fetch_page.
C9_VisitedWereFetched ==
  \A d \in Range(domains) : visited_urls[d] \subseteq DOMAIN attempts[d]

\* C10: a URL appended to the queue is at that moment neither in visited_urls
\* nor in the queue, also when pages of one batch link to the same URL or
\* to a URL of the batch.
C10_NoReEnqueue ==
  [][\A e \in Engines :
       \A k \in 1..Len(Appended(e)) :
         /\ Appended(e)[k] \notin visited_urls'[domains[e]]
         /\ Appended(e)[k] \notin Range(queue[e])
         /\ \A j \in 1..(k - 1) : Appended(e)[j] # Appended(e)[k]]_vars

\* C11: every URL placed in the queue of a domain, seed or extracted link,
\* has the scheme and host of that domain.
C11_SameDomainClosure ==
  \A e \in Engines :
    \A u \in Range(queue[e]) \cup Range(new_urls[e]) :
      _extract_domain(u) = _extract_domain(domains[e])

\* A page with a link to another host has been processed and links of the
\* batch wait to be queued.
C11_Witness ==
  \E e \in Engines : \E i \in 1..next_result[e] :
    /\ ~tasks[e][i].content.none
    /\ \E h \in tasks[e][i].content.hrefs :
         h.scheme # "" /\ _extract_domain(h) # _extract_domain(domains[e])
    /\ new_urls[e] # <<>>

\* The step is the loop body of engine e for its next result.
ResultStep(e) ==
  /\ Joined(e) /\ <<pc[e], next_result[e]>>' # <<pc[e], next_result[e]>>
  /\ pc'[e] # "cancelled"

\* C12: every URL of a joined batch is in visited_urls whatever its fetch
\* came to, and a fetch that failed (403, 429, another status, a short body,
\* a timeout, an error) adds nothing to product_urls and no link to new_urls
\* or the queue, neither in its task nor when its result is processed.
C12_FailedFetchOnlyVisited ==
  [][\A e \in Engines :
       /\ ResultStep(e) =>
            /\ tasks[e][next_result[e] + 1].url \in visited_urls'[domains[e]]
            /\ pc'[e] = "pause" =>
                 \A i \in TaskIds(e) : tasks[e][i].url \in visited_urls'[domains[e]]
            /\ tasks[e][next_result[e] + 1].content.none =>
                 /\ product_urls' = product_urls
                 /\ queue'[e] \o new_urls'[e] = queue[e] \o new_urls[e]
       /\ \A i \in TaskIds(e) :
            (/\ tasks[e][i].pc = "request"
             /\ tasks'[e][i].pc \in {"done", "backoff"}
             /\ tasks'[e][i].content.none /\ ~tasks'[e][i].product)
              => UNCHANGED <<product_urls, queue, new_urls>>]_vars

\* The result of a fetch that failed without the page being classified has
\* been processed, in a batch with a fetch that returned content.
C12_Witness ==
  \E e \in Engines : \E i \in 1..next_result[e], j \in TaskIds(e) :
    /\ tasks[e][i].content.none /\ ~tasks[e][i].product
    /\ tasks[e][i].url \in visited_urls[domains[e]]
    /\ ~tasks[e][j].content.none

\* C13: the loop of a domain exits only with its queue empty or its visited
\* count at the page budget, and no failure makes it exit or the crawl
\* abort otherwise.
C13_ExitOnlyWhenExhausted ==
  \A e \in Engines :
    /\ pc[e] # "failed"
    /\ pc[e] = "done" =>
         \/ queue[e] = <<>>
         \/ Cardinality(visited_urls[domains[e]]) >= max_pages_per_domain

\* C14: once a page fetch of a domain was answered 429, no page fetch of that
\* domain passes the gate before the back-off of RateLimitBackoff ticks is
\* over, fetches of the same batch waiting in the rate limiting included.
C14_BackoffHoldsDomain ==
  [][\A e \in Engines : \A i \in TaskIds(e) :
       (tasks[e][i].pc \in {"start", "sleep"} /\ tasks'[e][i].pc = "request")
         => ~\E f \in Engines : \E j \in TaskIds(f) :
               /\ domains[f] = domains[e]
               /\ tasks[f][j].pc = "backoff" /\ tasks[f][j].rem > 0]_vars

\* The page GETs of domain d that are issued and not yet answered.
InFlight(d) ==
  {p \in UNION {{<<e, i>> : i \in TaskIds(e)} : e \in Engines} :
     domains[p[1]] = d /\ tasks[p[1]][p[2]].pc = "request"}

\* C15: at any time at most max_concurrent_requests page fetches of one
\* domain are in flight.
C15_ConcurrencyCap ==
  \A d \in Range(domains) : Cardinality(InFlight(d)) <= max_concurrent_requests

\* What engine e and its fetch tasks stand at, the sleeps' remainders aside.
EngineLocal(e) ==
  <<pc[e], queue[e], next_result[e], new_urls[e],
    [i \in TaskIds(e) |-> [tasks[e][i] EXCEPT !.rem = 0]]>>

\* C16: a step of the engine of domain A, a failure included, leaves
\* visited_urls, the queue, product_urls, domain_patterns and the time of
\* the last request of every other domain B unchanged, and does not keep
\* the engine of B from completing.
C16_CrossDomainIsolation ==
  [][\A e, f \in Engines :
       domains[e] # domains[f] =>
         /\ EngineLocal(e)' # EngineLocal(e) =>
              UNCHANGED <<visited_urls[domains[f]], product_urls[domains[f]],
                          domain_patterns[domains[f]], elapsed[domains[f]], queue[f]>>
         /\ pc'[f] # "cancelled"]_vars

\* C17: the loop over the results adds the URL of a result to product_urls
\* only when the result has content and _is_product_url is true of the URL
\* and that content; a URL it is false of is not added by that step.
C17_ClassifiedBeforeRecorded ==
  [][\A e \in Engines :
       ResultStep(e) =>
         LET t == tasks[e][next_result[e] + 1]
         IN (t.url \in product_urls'[domains[e]] \ product_urls[domains[e]])
              => /\ ~t.content.none
                 /\ _is_product_url(t.url, t.content, domain_patterns[domains[e]])]_vars

\* The result of a page the classifier accepts has been processed and its
\* URL recorded, while another visited URL of the domain is no product.
C17_Witness ==
  \E e \in Engines : \E i \in 1..next_result[e] :
    /\ ~tasks[e][i].content.none
    /\ _is_product_url(tasks[e][i].url, tasks[e][i].content, domain_patterns[domains[e]])
    /\ tasks[e][i].url \in product_urls[domains[e]]
    /\ visited_urls[domains[e]] \ product_urls[domains[e]] # {}

\* The inputs of the collections scenario.
SummerItem == urljoin(Shop, Rel(<<"collections", "summer", "item-42">>))
WinterItem == urljoin(Shop, Rel(<<"collections", "winter", "item-77">>))
TokenPage == Page({"data-product-id", "add-to-cart"}, {}, {}, {})

\* The calls before call k for a URL of the same domain, and the patterns
\* the last of them left, which are the domain's patterns when call k is made.
PriorCalls(k) ==
  {j \in 1..(k - 1) : _extract_domain(calls[j].url) = _extract_domain(calls[k].url)}

PatternsBefore(k) ==
  IF PriorCalls(k) = {} THEN <<>>
  ELSE calls[CHOOSE j \in PriorCalls(k) : \A i \in PriorCalls(k) : i <= j].learned

\* C18: the first call, for /collections/summer/item-42 with a content that
\* holds data-product-id and add-to-cart, returns True and appends
\* /collections/ and /collections/summer/ to the domain's patterns; a later
\* call for /collections/winter/item-77 without content returns True by the
\* URL stage.
C18_CollectionsScenario ==
  (Len(calls) >= 1 /\ calls[1].url = SummerItem /\ calls[1].content = TokenPage) =>
    /\ calls[1].answer
    /\ calls[1].learned = << <<"collections">>, <<"collections", "summer">> >>
    /\ \A k \in 2..Len(calls) :
         (calls[k].url = WinterItem /\ calls[k].content.none) =>
           calls[k].answer /\ UrlStage(WinterItem, PatternsBefore(k))

\* Call j appended a pattern to the patterns of its URL's domain.
LearnedAt(j) == calls[j].learned # PatternsBefore(j)

\* C19: once a call with content has learned a pattern from its URL, every
\* later call without content for a URL of the same domain with the same
\* first path segment and as many path segments returns True.
C19_LearnedShapeClassifies ==
  \A j, k \in 1..Len(calls) :
    (/\ j < k
     /\ ~calls[j].content.none /\ LearnedAt(j)
     /\ calls[k].content.none
     /\ _extract_domain(calls[k].url) = _extract_domain(calls[j].url)
     /\ Len(calls[k].url.path) = Len(calls[j].url.path)
     /\ calls[k].url.path[1] = calls[j].url.path[1])
      => calls[k].answer

\* No entry of the list is in it twice.
NoRepeats(patterns) ==
  \A i, j \in 1..Len(patterns) : patterns[i] = patterns[j] => i = j

\* C20: whatever calls are made, the patterns of a domain only grow at the
\* end: what was in the list stays, in its place, and no pattern is in the
\* list twice.
C20_PatternsAppendOnly ==
  [][\A d \in DOMAIN domain_patterns :
       /\ Len(domain_patterns'[d]) >= Len(domain_patterns[d])
       /\ SubSeq(domain_patterns'[d], 1, Len(domain_patterns[d])) = domain_patterns[d]
       /\ NoRepeats(domain_patterns'[d])]_vars

\* A call with content reached the learning code for a first segment whose
\* pattern was in the list already, and the list holds several patterns.
C20_Witness ==
  /\ \E d \in DOMAIN domain_patterns : Len(domain_patterns[d]) >= 2
  /\ \E k \in 1..Len(calls) :
       /\ ~calls[k].content.none
       /\ ~UrlStage(calls[k].url, PatternsBefore(k))
       /\ IndicatorCount(calls[k].content) >= 2
       /\ <<calls[k].url.path[1]>> \in Range(PatternsBefore(k))

\* The patterns that the calls for URLs of domain d have learned, in order.
LearnedFor(d) ==
  IF \E k \in 1..Len(calls) : _extract_domain(calls[k].url) = d
  THEN calls[CHOOSE k \in 1..Len(calls) :
               /\ _extract_domain(calls[k].url) = d
               /\ \A i \in (k + 1)..Len(calls) : _extract_domain(calls[i].url) # d].learned
  ELSE <<>>

\* C21: what a call learns goes to the patterns of its URL's domain alone,
\* and a call is answered from the built-in patterns and the patterns learned
\* by calls for URLs of the same domain, never from another domain's.
C21_PatternsDomainScoped ==
  /\ \A d \in DOMAIN domain_patterns : domain_patterns[d] = LearnedFor(d)
  /\ \A k \in 1..Len(calls) :
       /\ calls[k].answer = _is_product_url(calls[k].url, calls[k].content, PatternsBefore(k))
       /\ calls[k].learned = LearnPatterns(calls[k].url, calls[k].content, PatternsBefore(k))

\* A call for a URL of one domain learned a pattern, and a later call without
\* content for a URL of another domain that the pattern matches returned False.
C21_Witness ==
  \E j, k \in 1..Len(calls) :
    /\ j < k
    /\ _extract_domain(calls[j].url) # _extract_domain(calls[k].url)
    /\ LearnedAt(j)
    /\ calls[k].content.none
    /\ UrlStage(calls[k].url, calls[j].learned)
    /\ ~calls[k].answer
    /\ domain_patterns[_extract_domain(calls[k].url)] = <<>>

\* The path is <slug>/p/<digits>.
SlugPDigits(u) ==
  Len(u.path) = 3 /\ u.path[1] # "" /\ u.path[2] = "p" /\ IsDigit(u.path[3])

\* C23: a call without content for a URL whose path is three segments
\* <slug>/p/<digits> returns True, whatever patterns its domain has learned.
C23_SlugPDigitsIsProduct ==
  \A k \in 1..Len(calls) :
    (SlugPDigits(calls[k].url) /\ calls[k].content.none) => calls[k].answer

\* Such a call was made, and returned True, on a domain that had learned
\* patterns, after such a call on a domain that had learned none.
C23_Witness ==
  \E j, k \in 1..Len(calls) :
    /\ SlugPDigits(calls[j].url) /\ calls[j].content.none /\ calls[j].answer
    /\ PatternsBefore(j) = <<>>
    /\ SlugPDigits(calls[k].url) /\ calls[k].content.none /\ calls[k].answer
    /\ PatternsBefore(k) # <<>>

\* The content has none of the PRODUCT_INDICATORS and no schema.org Product
\* marker.
PlainContent(content) ==
  /\ ~content.none
  /\ IndicatorCount(content) = 0
  /\ ~HtmlContains(content, "itemtype=\"http://schema.org/Product\"")
  /\ ~HtmlContains(content, "itemtype=\"https://schema.org/Product\"")

\* C24: a call for a URL that no pattern, built in or learned, matches, with
\* content that holds no indicator and no schema.org Product marker, returns
\* False and leaves the patterns of the domain as they were.
C24_PlainPageIsNoProduct ==
  \A k \in 1..Len(calls) :
    (/\ ~MatchesGlobalPattern(calls[k].url)
     /\ ~MatchesLearnedPattern(calls[k].url, PatternsBefore(k))
     /\ PlainContent(calls[k].content))
      => ~calls[k].answer /\ calls[k].learned = PatternsBefore(k)

\* C29: patterns are learned in the content stage alone: a call without
\* content, and a call for a URL the URL stage accepts, leave the patterns of
\* every domain as they were.
C29_LearningOnlyInContentStage ==
  [][\A k \in 1..Len(calls') :
       (/\ k > Len(calls)
        /\ \/ calls'[k].content.none
           \/ UrlStage(calls'[k].url, domain_patterns[_extract_domain(calls'[k].url)]))
         => domain_patterns' = domain_patterns]_vars

\* A call with the two tokens for a URL the URL stage accepts has been made,
\* and a call without content for a URL it rejects, on a domain that learns
\* from that URL once the tokens come with it.
C29_Witness ==
  \E j, k \in 1..Len(calls) :
    /\ ~calls[j].content.none /\ IndicatorCount(calls[j].content) >= 2
    /\ UrlStage(calls[j].url, PatternsBefore(j))
    /\ Len(calls[j].url.path) >= 2
    /\ calls[j].learned = PatternsBefore(j)
    /\ calls[k].content.none /\ ~calls[k].answer
    /\ calls[k].learned = PatternsBefore(k)
    /\ \E i \in 1..Len(calls) :
         calls[i].url = calls[k].url /\ calls[i].learned # PatternsBefore(i)

\* The path is the one segment <name>-<digits>.
NameDashDigits(u) ==
  /\ Len(u.path) = 1
  /\ Search(Anchored(<<Plus(NotSlash)>> \o Lit("-") \o <<Plus(DigitClass)>>), Chars[u.path[1]])

\* C30: a call without content for a URL whose path is the single segment
\* <name>-<digits> returns True, by the URL stage.
C30_NameDashDigitsIsProduct ==
  \A k \in 1..Len(calls) :
    (NameDashDigits(calls[k].url) /\ calls[k].content.none)
      => calls[k].answer /\ UrlStage(calls[k].url, PatternsBefore(k))

\* C25: the normalization of the extractor gives a link it has returned back
\* unchanged: resolved against the URL of any page of the domain or against a
\* <base href> and cleaned again it is the same URL, and the links extracted
\* from a page made of extracted links are those links.
C25_NormalizationIdempotent ==
  \A k \in 1..Len(calls) :
    /\ \A l \in calls[k].links :
         \A b \in ExtractUrls \cup UNION {c.base : c \in ExtractContents} :
           CleanUrl(urljoin(b, l)) = l
    /\ \A j \in 1..Len(calls) :
         (j < k /\ calls[k].content = PageOfLinks(j)) => calls[k].links = calls[j].links

\* Links that came from hrefs with a fragment, with a query and without
\* scheme and host, below a <base href>, have been extracted again from a page
\* with another URL.
C25_Witness ==
  \E j, k \in 1..Len(calls) :
    /\ j < k
    /\ calls[j].content.base # {}
    /\ \E h \in calls[j].content.hrefs : h.scheme = "" /\ h.frag # "" /\ h.path # <<>>
    /\ \E h \in calls[j].content.hrefs : h.scheme = "" /\ h.query # "" /\ h.path = <<>>
    /\ Cardinality(calls[j].links) = 2
    /\ calls[k].content = PageOfLinks(j)
    /\ calls[k].url # calls[j].url
    /\ calls[k].links = calls[j].links

\* The engine loops that run, or have run, on the state of domain d.
EnginesOf(d) == {e \in Engines : domains[e] = d /\ pc[e] # "start"}

\* C26: whatever the list of domain strings, strings of one origin included,
\* the visited set, product URLs, learned patterns and last request time of
\* a domain are driven by one engine loop.
C26_OneEnginePerDomain ==
  \A d \in Range(domains) : Cardinality(EnginesOf(d)) <= 1

\* The URLs of the tasks of engine e, in batch order.
BatchUrls(e) == [i \in TaskIds(e) |-> tasks[e][i].url]

\* C27: a domain's queue is served first in, first out: a batch is the front
\* of the queue less the URLs visited already, what is left is the rest of
\* the queue in its order, and links only come in at the back; so a URL that
\* entered the queue before another is dispatched in the same batch or in an
\* earlier one.
C27_FifoDispatch ==
  [][\A e \in Engines :
       \/ queue'[e] = queue[e] /\ (tasks'[e] = <<>> \/ BatchUrls(e)' = BatchUrls(e))
       \/ /\ Len(queue'[e]) > Len(queue[e])
          /\ SubSeq(queue'[e], 1, Len(queue[e])) = queue[e]
          /\ tasks'[e] = <<>>
       \/ \E n \in 1..Len(queue[e]) :
            /\ queue'[e] = SubSeq(queue[e], n + 1, Len(queue[e]))
            /\ BatchUrls(e)' = SelectSeq(SubSeq(queue[e], 1, n),
                                         LAMBDA u : u \notin visited_urls[domains[e]])]_vars

\* The seed URLs of each domain.
SeedUrls == [d \in ModelDomains |-> Range(SeedQueue(d))]

\* The last seed URLs have been taken as a batch from the front of a queue
\* at whose back links found on an earlier page wait.
C27_Witness ==
  \E e \in Engines :
    /\ pc[e] = "gather" /\ tasks[e] # <<>>
    /\ visited_urls[domains[e]] # {}
    /\ \A i \in TaskIds(e) : tasks[e][i].url \in SeedUrls[domains[e]]
    /\ queue[e] # <<>>
    /\ \A u \in Range(queue[e]) : u \notin SeedUrls[domains[e]]

\* C28: crawl() has returned only when the loop of every configured domain
\* is over, and the results then have one entry for each configured domain,
\* which lists the product URLs of that domain and nothing else, each once.
C28_ResultsAfterAllDone ==
  results.returned =>
    /\ \A e \in Engines : pc[e] = "done"
    /\ DOMAIN results.products = Range(domains)
    /\ \A d \in DOMAIN results.products :
         /\ Range(results.products[d]) = product_urls[d]
         /\ Len(results.products[d]) = Cardinality(product_urls[d])

\* crawl() has returned for a domain with several product URLs and pages
\* that are no products.
C28_Witness ==
  /\ results.returned
  /\ \E d \in DOMAIN results.products :
       /\ Len(results.products[d]) >= 2
       /\ visited_urls[d] \ product_urls[d] # {}

\* C31: the classifier is monotone in the learned patterns: a call that
\* returned True is answered True again when it is repeated, for the same
\* URL and content, after the patterns of the domain have grown.
C31_MonotoneInPatterns ==
  \A j, k \in 1..Len(calls) :
    (/\ j < k
     /\ calls[j].url = calls[k].url /\ calls[j].content = calls[k].content
     /\ calls[j].answer
     /\ Len(PatternsBefore(j)) <= Len(PatternsBefore(k))
     /\ SubSeq(PatternsBefore(k), 1, Len(PatternsBefore(j))) = PatternsBefore(j))
      => calls[k].answer

\* C32: every URL of a domain's product_urls, recorded by the loop over the
\* results or added from an API answer, is absolute and has the origin of
\* the domain.
C32_ProductUrlsAbsoluteSameOrigin ==
  \A d \in DOMAIN product_urls :
    \A u \in product_urls[d] :
      /\ u.scheme # "" /\ u.host # ""
      /\ _extract_domain(u) = _extract_domain(d)

====
